---------------------------- MODULE Spec2Model ----------------------------
(***************************************************************************)
(* A model of the etree path compiler and evaluator (package etree):       *)
(* the tokenizer, the recursive-descent parser, the candidates list and    *)
(* the breadth-first evaluator of src/unnamed/part_000.                    *)
(*                                                                         *)
(* Strings (Go string / tstring) are sequences of bytes 0..255.  Elements  *)
(* (pointers to Element) are 1..MaxElems, 0 is the nil pointer.  The Go    *)
(* int is modelled with IntBits bits (two's complement) instead of 64.     *)
(***************************************************************************)
EXTENDS Integers, Sequences, FiniteSets, TLC

VARIABLES
  input,   \* the path string handed to CompilePath (tokenizer runs)
  tz,      \* tokenizePath's loop state: [s, toks, st]
  cp,      \* CompilePath's result: [st, err, segments]
  tree,    \* the element tree: element -> [Space, Tag, Attr, Child, parent]
  start,   \* the element traverse starts from
  ev,      \* traverse's loop state: [pc, queue, out, result, first]
  hist,    \* history of the traversal: [arrivals, enq, deq, from]
  fx       \* a single filterIndex.eval call: [st, n, f, in, out]

vars == <<input, tz, cp, tree, start, ev, hist, fx>>

---------------------------------------------------------------------------
(* Bounds of the model *)

MaxPathLen == 3      \* bytes of a path string given to the tokenizer
MaxTokLoop == 4      \* cap on the tokens tokenizePath may collect
MaxToks == 3         \* tokens of a token list given to the parser
MaxFilterToks == 3   \* tokens following  a [  in the filter runs
MaxEvalToks == 4     \* tokens of a path that is evaluated
MaxElems == 3        \* elements of a tree
MaxList == 3         \* length of a candidate list given to filterIndex
IntBits == 6         \* width of the machine int (64 in the build)
MaxInnerToks == 3    \* tokens between [ and ] of a filter that is evaluated
MaxAdds == 2         \* add calls of a candidates run
MaxEquivToks == 3    \* tokens of a path that is compared with a variant of it
MaxConcToks == 2     \* tokens of a path that two evaluations share
MaxNameLen == 4      \* bytes of a function name that is not in fnTable
MaxIndex == 3        \* index of the filter that follows a child filter
MaxDescElems == 4    \* elements of a document with text and comments
MaxOther == 3        \* length of the list merged in a candidates run

largeListSize == 16

---------------------------------------------------------------------------
(* Machine integers *)

Pow2(n) == 2 ^ n

MaxInt == Pow2(IntBits - 1) - 1
MinInt == 0 - Pow2(IntBits - 1)

\* the value of an int expression after two's complement wrap-around
WrapInt(x) == ((x - MinInt) % Pow2(IntBits)) + MinInt

\* Go's unary minus on an int
NegInt(x) == WrapInt(0 - x)

---------------------------------------------------------------------------
(* tstring: a string as its bytes *)

InRange(b, lo, hi) == b >= lo /\ b <= hi

\* tstring.consume
consume(s, n) == SubSeq(s, n + 1, Len(s))

\* s[:n]
Prefix(s, n) == SubSeq(s, 1, n)

\* utf8.DecodeRuneInString: the first rune of s and its width in bytes
DecodeRune(s) ==
  IF Len(s) = 0 THEN [r |-> 65533, sz |-> 0]
  ELSE LET b0 == s[1]
           bad == [r |-> 65533, sz |-> 1]
           cont(i) == Len(s) >= i /\ InRange(s[i], 128, 191)
       IN  IF b0 < 128 THEN [r |-> b0, sz |-> 1]
           ELSE IF InRange(b0, 194, 223) THEN
             IF cont(2) THEN [r |-> (b0 % 32) * 64 + (s[2] % 64), sz |-> 2]
             ELSE bad
           ELSE IF InRange(b0, 224, 239) THEN
             IF /\ cont(2) /\ cont(3)
                /\ (b0 = 224 => s[2] >= 160)
                /\ (b0 = 237 => s[2] <= 159)
             THEN [r |-> (b0 % 16) * 4096 + (s[2] % 64) * 64 + (s[3] % 64),
                   sz |-> 3]
             ELSE bad
           ELSE IF InRange(b0, 240, 244) THEN
             IF /\ cont(2) /\ cont(3) /\ cont(4)
                /\ (b0 = 240 => s[2] >= 144)
                /\ (b0 = 244 => s[2] <= 143)
             THEN [r |-> (b0 % 8) * 262144 + (s[2] % 64) * 4096
                          + (s[3] % 64) * 64 + (s[4] % 64),
                   sz |-> 4]
             ELSE bad
           ELSE bad

\* tstring.nextRune
nextRune(s) == DecodeRune(s)

---------------------------------------------------------------------------
(* The lexeme table *)

lNil == 0
lIde == 1
lLbr == 2
lRbr == 3
lLpa == 4
lRpa == 5
lWld == 6
lSep == 7
lNum == 8
lUni == 9
lSub == 10
lDot == 11
lQuo == 12
lAtt == 13
lEqu == 14
lCol == 15

xIdentStart == 64
xIdentChar == 128
x0 == 0
x1 == xIdentChar
x2 == xIdentChar + xIdentStart

\* lexHint0[r + 1] is the source's lexHint0[r]
lexHint0 ==
    << x0 + lNil, x0 + lNil, x0 + lNil, x0 + lNil, x0 + lNil, x0 + lNil, x0 + lNil, x0 + lNil,   \* 0..7
       x0 + lNil, x0 + lNil, x0 + lNil, x0 + lNil, x0 + lNil, x0 + lNil, x0 + lNil, x0 + lNil,   \* 8..15
       x0 + lNil, x0 + lNil, x0 + lNil, x0 + lNil, x0 + lNil, x0 + lNil, x0 + lNil, x0 + lNil,   \* 16..23
       x0 + lNil, x0 + lNil, x0 + lNil, x0 + lNil, x0 + lNil, x0 + lNil, x0 + lNil, x0 + lNil,   \* 24..31
       x0 + lNil, x0 + lNil, x0 + lQuo, x0 + lNil, x0 + lNil, x0 + lNil, x0 + lNil, x0 + lQuo,   \* 32..39
       x0 + lLpa, x0 + lRpa, x0 + lWld, x0 + lNil, x0 + lNil, x1 + lSub, x1 + lDot, x0 + lSep,   \* 40..47
       x1 + lNum, x1 + lNum, x1 + lNum, x1 + lNum, x1 + lNum, x1 + lNum, x1 + lNum, x1 + lNum,   \* 48..55
       x1 + lNum, x1 + lNum, x0 + lCol, x0 + lNil, x0 + lNil, x0 + lEqu, x0 + lNil, x0 + lNil,   \* 56..63
       x0 + lAtt, x0 + lIde, x2 + lIde, x2 + lIde, x2 + lIde, x2 + lIde, x2 + lIde, x2 + lIde,   \* 64..71
       x2 + lIde, x2 + lIde, x2 + lIde, x2 + lIde, x2 + lIde, x2 + lIde, x2 + lIde, x2 + lIde,   \* 72..79
       x2 + lIde, x2 + lIde, x2 + lIde, x2 + lIde, x2 + lIde, x2 + lIde, x2 + lIde, x2 + lIde,   \* 80..87
       x2 + lIde, x2 + lIde, x2 + lIde, x0 + lLbr, x0 + lNil, x0 + lRbr, x0 + lNil, x2 + lIde,   \* 88..95
       x0 + lNil, x2 + lIde, x2 + lIde, x2 + lIde, x2 + lIde, x2 + lIde, x2 + lIde, x2 + lIde,   \* 96..103
       x2 + lIde, x2 + lIde, x2 + lIde, x2 + lIde, x2 + lIde, x2 + lIde, x2 + lIde, x2 + lIde,   \* 104..111
       x2 + lIde, x2 + lIde, x2 + lIde, x2 + lIde, x2 + lIde, x2 + lIde, x2 + lIde, x2 + lIde,   \* 112..119
       x2 + lIde, x2 + lIde, x2 + lIde, x0 + lNil, x0 + lUni, x0 + lNil, x0 + lNil, x0 + lNil    \* 120..127
    >>

\* lexHint0[r] & 0x3f
LexemeOf(r) == lexHint0[r + 1] % 64

\* (lexHint0[r] & flag) != 0, flag a single bit
HasFlag(r, flag) == (lexHint0[r + 1] \div flag) % 2 = 1

\* lexToToken: lexeme -> [tokID, tokenize]; tokenize "" is the nil function
lexToToken ==
    << [tokID |-> "tokNil",      tokenize |-> ""],                    \* lNil
       [tokID |-> "tokNil",      tokenize |-> "tokenizeIdentifier"],  \* lIde
       [tokID |-> "tokLBracket", tokenize |-> ""],                    \* lLbr
       [tokID |-> "tokRBracket", tokenize |-> ""],                    \* lRbr
       [tokID |-> "tokLParen",   tokenize |-> ""],                    \* lLpa
       [tokID |-> "tokRParen",   tokenize |-> ""],                    \* lRpa
       [tokID |-> "tokChildren", tokenize |-> ""],                    \* lWld
       [tokID |-> "tokNil",      tokenize |-> "tokenizeSlash"],       \* lSep
       [tokID |-> "tokNil",      tokenize |-> "tokenizeNumber"],      \* lNum
       [tokID |-> "tokUnion",    tokenize |-> ""],                    \* lUni
       [tokID |-> "tokNil",      tokenize |-> "tokenizeMinus"],       \* lSub
       [tokID |-> "tokNil",      tokenize |-> "tokenizeDot"],         \* lDot
       [tokID |-> "tokNil",      tokenize |-> "tokenizeQuote"],       \* lQuo
       [tokID |-> "tokAt",       tokenize |-> ""],                    \* lAtt
       [tokID |-> "tokEqual",    tokenize |-> ""],                    \* lEqu
       [tokID |-> "tokColon",    tokenize |-> ""] >>                  \* lCol

---------------------------------------------------------------------------
(* Character classes *)

whitespace(r) == r = 32 \/ r = 9

decimal(r) == r >= 48 /\ r <= 57

identifierStart(r) ==
  IF r < 128 THEN HasFlag(r, xIdentStart)
  ELSE \/ InRange(r, 192, 214)       \* 0xc0   .. 0xd6
       \/ InRange(r, 216, 246)       \* 0xd8   .. 0xf6
       \/ InRange(r, 248, 767)       \* 0xf8   .. 0x2ff
       \/ InRange(r, 880, 893)       \* 0x370  .. 0x37d
       \/ InRange(r, 895, 8191)      \* 0x37f  .. 0x1fff
       \/ InRange(r, 8204, 8205)     \* 0x200c .. 0x200d
       \/ InRange(r, 8304, 8591)     \* 0x2070 .. 0x218f
       \/ InRange(r, 11264, 12271)   \* 0x2c00 .. 0x2fef
       \/ InRange(r, 12289, 55295)   \* 0x3001 .. 0xd7ff
       \/ InRange(r, 63744, 64975)   \* 0xf900 .. 0xfdcf
       \/ InRange(r, 65008, 65533)   \* 0xfdf0 .. 0xfffd

identifier(r) ==
  IF r < 128 THEN HasFlag(r, xIdentChar)
  ELSE \/ identifierStart(r)
       \/ r = 183                    \* 0xb7
       \/ InRange(r, 768, 879)       \* 0x300  .. 0x36f
       \/ InRange(r, 8255, 8256)     \* 0x203f .. 0x2040

\* the predicate a scan is given, by name
ApplyFn(fn, r) ==
  IF fn = "whitespace" THEN whitespace(r)
  ELSE IF fn = "decimal" THEN decimal(r)
  ELSE identifier(r)

---------------------------------------------------------------------------
(* tstring scanning *)

RECURSIVE scanLoop(_, _, _)
\* the loop of scanWhile: i counts the runes accepted so far
scanLoop(s, fn, i) ==
  IF Len(s) = 0 THEN i
  ELSE LET d == DecodeRune(s)
       IN  IF ~ApplyFn(fn, d.r) THEN i
           ELSE scanLoop(consume(s, d.sz), fn, i + 1)

scanWhile(s, fn) == scanLoop(s, fn, 0)

consumeWhile(s, fn) ==
  LET i == scanWhile(s, fn)
  IN  [consumed |-> Prefix(s, i), remain |-> consume(s, i)]

consumeWhitespace(s) == consume(s, scanWhile(s, "whitespace"))

---------------------------------------------------------------------------
(* Tokenizer.  A tokenize function returns [t, remain, err]. *)

Tok(id, value) == [id |-> id, value |-> value]

NilTok == Tok("tokNil", <<>>)

tokenizeIdentifier(s) ==
  LET c == consumeWhile(s, "identifier")
  IN  [t |-> Tok("tokIdentifier", c.consumed), remain |-> c.remain, err |-> FALSE]

tokenizeSlash(s) ==
  IF Len(s) > 1 /\ s[2] = 47
  THEN [t |-> Tok("tokSepRecurse", <<>>), remain |-> consume(s, 2), err |-> FALSE]
  ELSE [t |-> Tok("tokSep", <<>>), remain |-> consume(s, 1), err |-> FALSE]

tokenizeNumber(s) ==
  LET c == consumeWhile(s, "decimal")
  IN  [t |-> Tok("tokNumber", c.consumed), remain |-> c.remain, err |-> FALSE]

tokenizeMinus(s) ==
  LET c == consumeWhile(consume(s, 1), "decimal")
  IN  IF Len(c.consumed) = 0
      THEN [t |-> NilTok, remain |-> s, err |-> TRUE]
      ELSE [t |-> Tok("tokNumber", Prefix(s, Len(c.consumed) + 1)),
            remain |-> c.remain, err |-> FALSE]

tokenizeDot(s) ==
  IF Len(s) > 1 /\ s[2] = 46
  THEN [t |-> Tok("tokParent", <<>>), remain |-> consume(s, 2), err |-> FALSE]
  ELSE [t |-> Tok("tokSelf", <<>>), remain |-> consume(s, 1), err |-> FALSE]

RECURSIVE quoteLoop(_, _, _)
\* the range loop of tokenizeQuote: i is the byte offset of the next rune
quoteLoop(s, quot, i) ==
  IF i >= Len(s) THEN [t |-> NilTok, remain |-> s, err |-> TRUE]
  ELSE LET d == DecodeRune(consume(s, i))
       IN  IF d.r = quot
           THEN [t |-> Tok("tokString", Prefix(s, i)),
                 remain |-> consume(s, i + 1), err |-> FALSE]
           ELSE quoteLoop(s, quot, i + d.sz)

tokenizeQuote(s) == quoteLoop(consume(s, 1), s[1], 0)

tokenizeLexeme(s) ==
  IF Len(s) = 0 THEN [t |-> NilTok, remain |-> s, err |-> FALSE]
  ELSE LET d == nextRune(s)
           known == d.r < 128 \/ identifierStart(d.r)
           ldata == IF d.r < 128 THEN lexToToken[LexemeOf(d.r) + 1]
                    ELSE lexToToken[lIde + 1]
       IN  IF ~known THEN [t |-> NilTok, remain |-> s, err |-> TRUE]
           ELSE IF ldata.tokenize = ""
             THEN [t |-> Tok(ldata.tokID, <<>>), remain |-> consume(s, d.sz),
                   err |-> FALSE]
           ELSE IF ldata.tokenize = "tokenizeIdentifier" THEN tokenizeIdentifier(s)
           ELSE IF ldata.tokenize = "tokenizeSlash" THEN tokenizeSlash(s)
           ELSE IF ldata.tokenize = "tokenizeNumber" THEN tokenizeNumber(s)
           ELSE IF ldata.tokenize = "tokenizeMinus" THEN tokenizeMinus(s)
           ELSE IF ldata.tokenize = "tokenizeDot" THEN tokenizeDot(s)
           ELSE tokenizeQuote(s)

---------------------------------------------------------------------------
(* tokens: a token list *)

peekID(t) == IF Len(t) = 0 THEN "tokEOL" ELSE t[1].id

\* tokens.next: [tok, remain]
next(t) ==
  IF Len(t) = 0 THEN [tok |-> Tok("tokEOL", <<>>), remain |-> t]
  ELSE [tok |-> t[1], remain |-> Tail(t)]

---------------------------------------------------------------------------
(* Compiled paths *)

Sel(t, space, tag) == [t |-> t, space |-> space, tag |-> tag]

FExpr(t, space, key, value, index, fn) ==
  [t |-> t, space |-> space, key |-> key, value |-> value,
   index |-> index, fn |-> fn]

\* a segmentExpr whose sel is the nil interface has sel.t = "nil"
segmentExpr(sel, filters) == [sel |-> sel, filters |-> filters]

rootSegment == [exprs |-> <<segmentExpr(Sel("selectRoot", <<>>, <<>>), <<>>)>>]

descendantsSegment ==
  [exprs |-> <<segmentExpr(Sel("selectDescendants", <<>>, <<>>), <<>>)>>]

\* the keys of fnTable: local-name, name, namespace-prefix, namespace-uri, text
\* a function table that also knows tex
fnTable_withTex ==
  { <<108, 111, 99, 97, 108, 45, 110, 97, 109, 101>>,
    <<110, 97, 109, 101>>,
    <<110, 97, 109, 101, 115, 112, 97, 99, 101, 45, 112, 114, 101, 102, 105, 120>>,
    <<110, 97, 109, 101, 115, 112, 97, 99, 101, 45, 117, 114, 105>>,
    <<116, 101, 120, 116>>, <<116, 101, 120>> }

fnTable ==
  { <<108, 111, 99, 97, 108, 45, 110, 97, 109, 101>>,
    <<110, 97, 109, 101>>,
    <<110, 97, 109, 101, 115, 112, 97, 99, 101, 45, 112, 114, 101, 102, 105, 120>>,
    <<110, 97, 109, 101, 115, 112, 97, 99, 101, 45, 117, 114, 105>>,
    <<116, 101, 120, 116>> }

RECURSIVE digitsValue(_, _)
\* the decimal value of the digits of s after acc, saturating above MaxInt + 1
digitsValue(s, acc) ==
  IF Len(s) = 0 THEN acc
  ELSE LET v == acc * 10 + (s[1] - 48)
       IN  digitsValue(Tail(s), IF v > MaxInt + 1 THEN MaxInt + 1 ELSE v)

\* strconv.Atoi with its error dropped: out of range gives the nearest int
Atoi(s) ==
  IF Len(s) > 0 /\ s[1] = 45
  THEN LET m == digitsValue(Tail(s), 0) IN 0 - m
  ELSE LET m == digitsValue(s, 0) IN IF m > MaxInt THEN MaxInt ELSE m

---------------------------------------------------------------------------
(* Parser.  A parse function returns [err, toks, ...]; on an error the     *)
(* other fields are not used by any caller.  A value the code keeps in a   *)
(* local variable is bound as the parameter of a local operator.           *)

PErr == [err |-> TRUE, toks |-> <<>>, exprs |-> <<>>]

POk(toks, exprs) == [err |-> FALSE, toks |-> toks, exprs |-> exprs]

parseName(toks) ==
  LET second(n1, n2) ==
        IF n2.tok.id # "tokIdentifier"
        THEN [err |-> TRUE, toks |-> <<>>, sp |-> <<>>, name |-> <<>>]
        ELSE [err |-> FALSE, toks |-> n2.remain, sp |-> n1.tok.value,
              name |-> n2.tok.value]
      first(n1) ==
        IF peekID(n1.remain) = "tokColon"
        THEN second(n1, next(consume(n1.remain, 1)))
        ELSE [err |-> FALSE, toks |-> n1.remain, sp |-> <<>>,
              name |-> n1.tok.value]
  IN  first(next(toks))

parseSelector(toks) ==
  LET nosel == Sel("nil", <<>>, <<>>)
      simple(t) == [err |-> FALSE, toks |-> consume(toks, 1),
                    sel |-> Sel(t, <<>>, <<>>)]
      named(n) == IF n.err THEN [err |-> TRUE, toks |-> <<>>, sel |-> nosel]
                  ELSE [err |-> FALSE, toks |-> n.toks,
                        sel |-> Sel("selectChildrenByTag", n.sp, n.name)]
      switch(id) ==
        IF id = "tokSelf" THEN simple("selectSelf")
        ELSE IF id = "tokParent" THEN simple("selectParent")
        ELSE IF id = "tokChildren" THEN simple("selectChildren")
        ELSE IF id = "tokIdentifier" THEN named(parseName(toks))
        ELSE [err |-> TRUE, toks |-> <<>>, sel |-> nosel]
  IN  switch(peekID(toks))

RECURSIVE parseFilter(_, _)
RECURSIVE parseFilterExpr(_, _)

\* parseFilterExpr(f, toks): f is the filter's exprs so far
parseFilterExpr(f, toks) ==
  LET \* '(' <filter> ')'
      closeParen(ff, n) ==
        IF n.tok.id # "tokRParen" THEN PErr
        ELSE POk(n.remain, f \o ff.exprs)
      paren(ff) == IF ff.err THEN PErr ELSE closeParen(ff, next(ff.toks))
      \* number
      stored(index) == IF index > 0 THEN index - 1 ELSE index
      number(n) ==
        POk(n.remain,
            Append(f, FExpr("filterIndex", <<>>, <<>>, <<>>,
                            stored(Atoi(n.tok.value)), <<>>)))
      \* '@' <name> '=' string
      attribValue(nm, n) ==
        IF n.tok.id # "tokString" THEN PErr
        ELSE POk(n.remain,
                 Append(f, FExpr("filterAttribValue", nm.sp, nm.name,
                                 n.tok.value, 0, <<>>)))
      attrib(nm) ==
        IF nm.err THEN PErr
        ELSE IF peekID(nm.toks) = "tokEqual"
          THEN attribValue(nm, next(consume(nm.toks, 1)))
        ELSE POk(nm.toks,
                 Append(f, FExpr("filterAttrib", nm.sp, nm.name, <<>>, 0, <<>>)))
      \* ident '=' string
      childText(nm, n) ==
        IF n.tok.id # "tokString" THEN PErr
        ELSE POk(n.remain,
                 Append(f, FExpr("filterChildText", nm.sp, nm.name,
                                 n.tok.value, 0, <<>>)))
      \* ident '(' ')' '=' string
      funcValue(nm, v) ==
        IF v.tok.id # "tokString" THEN PErr
        ELSE POk(v.remain,
                 Append(f, FExpr("filterByValueFunc", <<>>, <<>>, v.tok.value,
                                 0, nm.name)))
      func(nm, n) ==
        IF n.tok.id # "tokRParen" THEN PErr
        ELSE IF nm.name \notin fnTable THEN PErr
        ELSE IF peekID(n.remain) = "tokEqual"
          THEN funcValue(nm, next(consume(n.remain, 1)))
        ELSE POk(n.remain,
                 Append(f, FExpr("filterByExistsFunc", <<>>, <<>>, <<>>, 0,
                                 nm.name)))
      ident(nm, id) ==
        IF nm.err THEN PErr
        ELSE IF id = "tokEqual" THEN childText(nm, next(consume(nm.toks, 1)))
        ELSE IF id = "tokLParen" THEN func(nm, next(consume(nm.toks, 1)))
        ELSE POk(nm.toks,
                 Append(f, FExpr("filterChild", nm.sp, nm.name, <<>>, 0, <<>>)))
      identName(nm) == ident(nm, IF nm.err THEN "tokEOL" ELSE peekID(nm.toks))
      switch(id) ==
        IF id = "tokLParen" THEN paren(parseFilter(<<>>, consume(toks, 1)))
        ELSE IF id = "tokNumber" THEN number(next(toks))
        ELSE IF id = "tokAt" THEN attrib(parseName(consume(toks, 1)))
        ELSE IF id = "tokIdentifier" THEN identName(parseName(toks))
        ELSE PErr
  IN  switch(peekID(toks))

\* parseFilter(fu, toks): fu is the filter's exprs so far
parseFilter(fu, toks) ==
  LET loop(r) ==
        IF r.err THEN PErr
        ELSE IF peekID(r.toks) # "tokUnion" THEN r
        ELSE parseFilter(r.exprs, consume(r.toks, 1))
  IN  loop(parseFilterExpr(fu, toks))

RECURSIVE filterLoop(_, _)
\* the filter loop of parseSegmentExpr: e is the segmentExpr built so far;
\* returns [err, toks, e]
filterLoop(e, toks) ==
  LET bad == [err |-> TRUE, toks |-> <<>>, e |-> e]
      close(f, n) ==
        IF n.tok.id # "tokRBracket" THEN bad
        ELSE filterLoop(segmentExpr(e.sel, Append(e.filters, [exprs |-> f.exprs])),
                        n.remain)
      wrapped(f) == IF f.err THEN bad ELSE close(f, next(f.toks))
  IN  IF peekID(toks) # "tokLBracket"
      THEN [err |-> FALSE, toks |-> toks, e |-> e]
      ELSE wrapped(parseFilter(<<>>, consume(toks, 1)))

RECURSIVE parseSegment(_, _)
RECURSIVE parseSegmentExpr(_, _)

\* parseSegmentExpr(s, toks): s is the segment's exprs so far
parseSegmentExpr(s, toks) ==
  LET closeParen(ss, n) ==
        IF n.tok.id # "tokRParen" THEN PErr
        ELSE POk(n.remain, s \o ss.exprs)
      paren(ss) == IF ss.err THEN PErr ELSE closeParen(ss, next(ss.toks))
      filtered(fl) == IF fl.err THEN PErr ELSE POk(fl.toks, Append(s, fl.e))
      selected(sl) ==
        IF sl.err THEN PErr
        ELSE filtered(filterLoop(segmentExpr(sl.sel, <<>>), sl.toks))
  IN  IF peekID(toks) = "tokLParen"
      THEN paren(parseSegment(<<>>, consume(toks, 1)))
      ELSE selected(parseSelector(toks))

\* parseSegment(s, toks): s is the segment's exprs so far
parseSegment(s, toks) ==
  LET loop(r) ==
        IF r.err THEN PErr
        ELSE IF peekID(r.toks) # "tokUnion" THEN r
        ELSE parseSegment(r.exprs, consume(r.toks, 1))
  IN  loop(parseSegmentExpr(s, toks))

RECURSIVE segmentLoop(_, _)
\* the segment loop of parsePath: returns [err, segments]
segmentLoop(segments, toks) ==
  LET separator(withS, n) ==
        IF n.tok.id = "tokSep" THEN segmentLoop(withS, n.remain)
        ELSE IF n.tok.id = "tokSepRecurse"
          THEN segmentLoop(Append(withS, descendantsSegment), n.remain)
        ELSE IF n.tok.id = "tokEOL" THEN [err |-> FALSE, segments |-> withS]
        ELSE [err |-> TRUE, segments |-> withS]
      parsed(s) ==
        IF s.err THEN [err |-> TRUE, segments |-> segments]
        ELSE separator(Append(segments, [exprs |-> s.exprs]), next(s.toks))
  IN  IF Len(toks) = 0 THEN [err |-> FALSE, segments |-> segments]
      ELSE parsed(parseSegment(<<>>, toks))

\* parsePath on an empty Path: [err, segments]
\* a parsePath without the case tokEOL
parsePath_noEOLCase(toks) ==
  LET absolute(id) ==
        IF id = "tokSep" THEN <<rootSegment>>
        ELSE IF id = "tokSepRecurse" THEN <<rootSegment, descendantsSegment>>
        ELSE <<>>
      switch(id) ==
        segmentLoop(absolute(id),
                    IF id \in {"tokSep", "tokSepRecurse"}
                    THEN consume(toks, 1) ELSE toks)
  IN  switch(peekID(toks))

\* a parsePath that wants a segment after the leading separator
parsePath_segmentAfterSep(toks) ==
  LET absolute(id) ==
        IF id = "tokSep" THEN <<rootSegment>>
        ELSE IF id = "tokSepRecurse" THEN <<rootSegment, descendantsSegment>>
        ELSE <<>>
      switch(id) ==
        IF id = "tokEOL" THEN [err |-> TRUE, segments |-> <<>>]
        ELSE IF id \in {"tokSep", "tokSepRecurse"} /\ Len(toks) = 1
          THEN [err |-> TRUE, segments |-> <<>>]
        ELSE segmentLoop(absolute(id),
                         IF id \in {"tokSep", "tokSepRecurse"}
                         THEN consume(toks, 1) ELSE toks)
  IN  switch(peekID(toks))

parsePath(toks) ==
  LET absolute(id) ==
        IF id = "tokSep" THEN <<rootSegment>>
        ELSE IF id = "tokSepRecurse" THEN <<rootSegment, descendantsSegment>>
        ELSE <<>>
      switch(id) ==
        IF id = "tokEOL" THEN [err |-> TRUE, segments |-> <<>>]
        ELSE segmentLoop(absolute(id),
                         IF id \in {"tokSep", "tokSepRecurse"}
                         THEN consume(toks, 1) ELSE toks)
  IN  switch(peekID(toks))

\* CompilePath after tokenizePath returned toks: the Path, or Path{} and the error
compileTokens(toks) ==
  LET result(r) == IF r.err THEN [err |-> TRUE, segments |-> <<>>]
                   ELSE [err |-> FALSE, segments |-> r.segments]
  IN  result(parsePath(toks))

---------------------------------------------------------------------------
(* The grammar of the source's comment, as a recogniser.  G_x(t) is the    *)
(* set of token lists that can remain after a prefix of t derived from x.  *)

IsTok(t, id) == Len(t) > 0 /\ t[1].id = id

\* the lists left after one token id at the front of any list of ts
Eat(ts, id) == { Tail(t) : t \in { u \in ts : IsTok(u, id) } }

\* <name> ::= ident | ident ':' ident
G_name(t) ==
  LET a == Eat({t}, "tokIdentifier")
  IN  a \cup Eat(Eat(a, "tokColon"), "tokIdentifier")

G_names(ts) == UNION { G_name(t) : t \in ts }

\* <selector> ::= '.' | '..' | '*' | <name>
G_selector(t) ==
  Eat({t}, "tokSelf") \cup Eat({t}, "tokParent") \cup Eat({t}, "tokChildren")
    \cup G_name(t)

\* an optional  '=' string
G_optValue(ts) == ts \cup Eat(Eat(ts, "tokEqual"), "tokString")

RECURSIVE G_filter(_)
RECURSIVE G_filterExpr(_)
RECURSIVE G_filterTail(_)

\* <filterExpr> ::= number | '@' <name> ('=' string)? | <name> ('=' string)?
\*                | <name> '(' ')' ('=' string)? | '(' <filter> ')'
G_filterExpr(t) ==
  Eat({t}, "tokNumber")
    \cup G_optValue(G_names(Eat({t}, "tokAt")))
    \cup G_optValue(G_name(t))
    \cup G_optValue(Eat(Eat(G_name(t), "tokLParen"), "tokRParen"))
    \cup Eat(UNION { G_filter(u) : u \in Eat({t}, "tokLParen") }, "tokRParen")

\* ('|' <filterExpr>)*  applied to the lists ts
G_filterTail(ts) ==
  LET again(more) == IF more = {} THEN ts ELSE ts \cup G_filterTail(more)
  IN  again(UNION { G_filterExpr(u) : u \in Eat(ts, "tokUnion") })

\* <filter> ::= <filterExpr> ('|' <filterExpr>)*
G_filter(t) == G_filterTail(G_filterExpr(t))

RECURSIVE G_filterWrappers(_)
\* <filterWrapper>*  with  <filterWrapper> ::= '[' <filter> ']'
G_filterWrappers(ts) ==
  LET again(more) == IF more = {} THEN ts ELSE ts \cup G_filterWrappers(more)
  IN  again(Eat(UNION { G_filter(u) : u \in Eat(ts, "tokLBracket") },
                "tokRBracket"))

RECURSIVE G_segment(_)
RECURSIVE G_segmentExpr(_)
RECURSIVE G_segmentTail(_)

\* <segmentExpr> ::= <selector> <filterWrapper>* | '(' <segment> ')'
G_segmentExpr(t) ==
  G_filterWrappers(G_selector(t))
    \cup Eat(UNION { G_segment(u) : u \in Eat({t}, "tokLParen") }, "tokRParen")

\* ('|' <segmentExpr>)*  applied to the lists ts
G_segmentTail(ts) ==
  LET again(more) == IF more = {} THEN ts ELSE ts \cup G_segmentTail(more)
  IN  again(UNION { G_segmentExpr(u) : u \in Eat(ts, "tokUnion") })

\* <segment> ::= <segmentExpr> ('|' <segmentExpr>)*
G_segment(t) == G_segmentTail(G_segmentExpr(t))

\* <sep> ::= '/' | '//'
G_sep(ts) == Eat(ts, "tokSep") \cup Eat(ts, "tokSepRecurse")

RECURSIVE G_segmentSeps(_)
\* (<segment> <sep>)*  applied to the lists ts
G_segmentSeps(ts) ==
  LET again(more) == IF more = {} THEN ts ELSE ts \cup G_segmentSeps(more)
  IN  again(G_sep(UNION { G_segment(u) : u \in ts }))

\* <path> ::= <sep>? (<segment> <sep>)* <segment>?
G_path(t) ==
  LET last(a) == a \cup UNION { G_segment(u) : u \in a }
  IN  last(G_segmentSeps({t} \cup G_sep({t})))

\* the grammar derives the token list t
Derives(t) == <<>> \in G_path(t)

---------------------------------------------------------------------------
(* The element tree.  tree[e] is the Element e: Space, Tag, Attr, Child    *)
(* (tokens: [kind, e] with e the element of an Element token) and parent.  *)

Elems == 1..MaxElems

Range(s) == { s[i] : i \in 1..Len(s) }

IsElement(tk) == tk.kind = "Element"

\* the elements among the child tokens of e, in order
RECURSIVE elementsOf(_)
elementsOf(child) ==
  IF Len(child) = 0 THEN <<>>
  ELSE IF IsElement(Head(child)) THEN <<Head(child).e>> \o elementsOf(Tail(child))
  ELSE elementsOf(Tail(child))

\* an empty or "*" query prefix matches any prefix
spaceMatch(a, b) == IF a = <<>> \/ a = <<42>> THEN TRUE ELSE a = b

---------------------------------------------------------------------------
(* fifo *)

fifo_add(q, v) == Append(q, v)

fifo_remove(q) == [v |-> Head(q), q |-> Tail(q)]

fifo_len(q) == Len(q)

---------------------------------------------------------------------------
(* candidates.  panic marks the value of a call that panicked. *)

newCandidates ==
  [list |-> <<>>, isNil |-> TRUE, table |-> {}, tableNil |-> TRUE, panic |-> FALSE]

Panicked == [newCandidates EXCEPT !.panic = TRUE]

\* an add that fills the table when it makes it and not afterwards
add_tableStale(c, e) ==
  LET grown(list) ==
        IF c.tableNil /\ Len(list) >= largeListSize
        THEN [c EXCEPT !.list = list, !.isNil = FALSE, !.tableNil = FALSE,
                       !.table = Range(list)]
        ELSE [c EXCEPT !.list = list, !.isNil = FALSE]
  IN  grown(Append(c.list, e))

add(c, e) ==
  LET grown(list) ==
        IF c.tableNil /\ Len(list) >= largeListSize
        THEN [c EXCEPT !.list = list, !.isNil = FALSE, !.tableNil = FALSE,
                       !.table = Range(list)]
        ELSE [c EXCEPT !.list = list, !.isNil = FALSE,
                       !.table = IF c.tableNil THEN c.table ELSE c.table \cup {e}]
  IN  grown(Append(c.list, e))

RECURSIVE addEach(_, _)
\* add called for each element of es in order
addEach(c, es) ==
  IF Len(es) = 0 THEN c ELSE addEach(add(c, Head(es)), Tail(es))

\* a merge that appends every element of other
mergeSmall_keepAll(list, other) == list \o other

RECURSIVE mergeSmall(_, _)
\* merge's loop without a table: the list after it
mergeSmall(list, other) ==
  IF Len(other) = 0 THEN list
  ELSE mergeSmall(IF Head(other) \in Range(list) THEN list
                  ELSE Append(list, Head(other)),
                  Tail(other))

RECURSIVE mergeLarge_tableNotKept(_, _, _)
\* a merge with a table that does not enter the appended elements in it
mergeLarge_tableNotKept(list, table, other) ==
  IF Len(other) = 0 THEN [list |-> list, table |-> table]
  ELSE IF Head(other) \in table THEN mergeLarge_tableNotKept(list, table, Tail(other))
  ELSE mergeLarge_tableNotKept(Append(list, Head(other)), table, Tail(other))

RECURSIVE mergeLarge(_, _, _)
\* merge's loop with a table: [list, table] after it
mergeLarge(list, table, other) ==
  IF Len(other) = 0 THEN [list |-> list, table |-> table]
  ELSE IF Head(other) \in table THEN mergeLarge(list, table, Tail(other))
  ELSE mergeLarge(Append(list, Head(other)), table \cup {Head(other)}, Tail(other))

\* a merge that makes no table
merge_scanOnly(c, other) ==
  IF c.panic \/ other.panic THEN [c EXCEPT !.panic = TRUE]
  ELSE IF other.isNil THEN c
  ELSE IF c.tableNil
    THEN [c EXCEPT !.isNil = FALSE, !.list = mergeSmall(c.list, other.list)]
  ELSE [c EXCEPT !.isNil = FALSE,
                 !.list = mergeLarge(c.list, c.table, other.list).list,
                 !.table = mergeLarge(c.list, c.table, other.list).table]

merge(c, other) ==
  LET large(r) == [c EXCEPT !.isNil = FALSE, !.tableNil = FALSE,
                            !.list = r.list, !.table = r.table]
      makeTable == c.tableNil /\ Len(c.list) + Len(other.list) >= largeListSize
  IN  IF c.panic \/ other.panic THEN [c EXCEPT !.panic = TRUE]
      ELSE IF other.isNil THEN c
      ELSE IF c.tableNil /\ ~makeTable
        THEN [c EXCEPT !.isNil = FALSE, !.list = mergeSmall(c.list, other.list)]
      ELSE large(mergeLarge(c.list,
                            IF makeTable THEN Range(c.list) ELSE c.table,
                            other.list))

---------------------------------------------------------------------------
(* Selectors *)

RECURSIVE rootOf(_)
\* selectRoot's loop
rootOf(e) == IF tree[e].parent = 0 THEN e ELSE rootOf(tree[e].parent)

\* a root selector that does not climb to the topmost element
selectRoot_eval_noClimb(e) == add(newCandidates, e)

selectRoot_eval(e) == add(newCandidates, rootOf(e))

\* a self selector that selects nothing
selectSelf_eval_none(e) == newCandidates

selectSelf_eval(e) == add(newCandidates, e)

selectParent_eval(e) ==
  IF tree[e].parent # 0 THEN add(newCandidates, tree[e].parent)
  ELSE newCandidates

selectChildren_eval(e) == addEach(newCandidates, elementsOf(tree[e].Child))

\* the elements of es that the tag test of space:tag accepts, in order
tagged(es, space, tag) ==
  SelectSeq(es, LAMBDA ch : spaceMatch(space, tree[ch].Space) /\ tag = tree[ch].Tag)

selectChildrenByTag_eval(s, e) ==
  addEach(newCandidates, tagged(elementsOf(tree[e].Child), s.space, s.tag))

RECURSIVE descendantsLoop_depthFirst(_, _)
\* a descendants loop that puts the children in front of the waiting elements
descendantsLoop_depthFirst(queue, out) ==
  IF fifo_len(queue) = 0 THEN out
  ELSE descendantsLoop_depthFirst(
         elementsOf(tree[Head(queue)].Child) \o Tail(queue),
         add(out, Head(queue)))

RECURSIVE descendantsLoop(_, _)
\* selectDescendants' loop over its queue
descendantsLoop(queue, out) ==
  IF fifo_len(queue) = 0 THEN out
  ELSE descendantsLoop(Tail(queue) \o elementsOf(tree[Head(queue)].Child),
                       add(out, Head(queue)))

selectDescendants_eval(e) == descendantsLoop(fifo_add(<<>>, e), newCandidates)

selector_eval(s, e) ==
  IF s.t = "selectRoot" THEN selectRoot_eval(e)
  ELSE IF s.t = "selectSelf" THEN selectSelf_eval(e)
  ELSE IF s.t = "selectParent" THEN selectParent_eval(e)
  ELSE IF s.t = "selectChildren" THEN selectChildren_eval(e)
  ELSE IF s.t = "selectChildrenByTag" THEN selectChildrenByTag_eval(s, e)
  ELSE IF s.t = "selectDescendants" THEN selectDescendants_eval(e)
  ELSE Panicked   \* a nil selector: nil pointer dereference

---------------------------------------------------------------------------
(* Filters *)

\* Element.Text
Text(e) ==
  IF Len(tree[e].Child) = 0 THEN <<>>
  ELSE IF tree[e].Child[1].kind = "CharData" THEN tree[e].Child[1].data
  ELSE <<>>

filterIndex_eval(f, in) ==
  LET fromEnd(i) ==
        IF i < 0 \/ i >= Len(in.list) THEN Panicked   \* index out of range
        ELSE add(newCandidates, in.list[i + 1])
  IN  IF f.index >= 0
      THEN IF f.index < Len(in.list)
           THEN add(newCandidates, in.list[f.index + 1])
           ELSE newCandidates
      ELSE IF NegInt(f.index) <= Len(in.list)
           THEN fromEnd(WrapInt(Len(in.list) + f.index))
           ELSE newCandidates

filterAttrib_eval(f, in) ==
  addEach(newCandidates,
          SelectSeq(in.list,
                    LAMBDA ch : \E i \in 1..Len(tree[ch].Attr) :
                       /\ spaceMatch(f.space, tree[ch].Attr[i].Space)
                       /\ f.key = tree[ch].Attr[i].Key))

filterAttribValue_eval(f, in) ==
  addEach(newCandidates,
          SelectSeq(in.list,
                    LAMBDA ch : \E i \in 1..Len(tree[ch].Attr) :
                       /\ spaceMatch(f.space, tree[ch].Attr[i].Space)
                       /\ f.key = tree[ch].Attr[i].Key
                       /\ f.value = tree[ch].Attr[i].Value))

RECURSIVE addTimes(_, _, _)
\* add(e) called n times
addTimes(c, e, n) == IF n = 0 THEN c ELSE addTimes(add(c, e), e, n - 1)

RECURSIVE filterChildLoop(_, _, _)
\* the outer loop of filterChild.eval: ch is added once for each child
\* element of ch that has the tag
filterChildLoop(f, list, out) ==
  IF Len(list) = 0 THEN out
  ELSE filterChildLoop(f, Tail(list),
         addTimes(out, Head(list),
                  Len(tagged(elementsOf(tree[Head(list)].Child), f.space, f.key))))

filterChild_eval(f, in) == filterChildLoop(f, in.list, newCandidates)

RECURSIVE filterChildTextLoop(_, _, _)
\* the outer loop of filterChildText.eval
filterChildTextLoop(f, list, out) ==
  IF Len(list) = 0 THEN out
  ELSE filterChildTextLoop(f, Tail(list),
         addTimes(out, Head(list),
                  Len(SelectSeq(tagged(elementsOf(tree[Head(list)].Child),
                                       f.space, f.key),
                                LAMBDA cc : f.value = Text(cc)))))

filterChildText_eval(f, in) == filterChildTextLoop(f, in.list, newCandidates)

\* full_tag: prefix:local, or local when the prefix is empty
FullTag(e) ==
  IF tree[e].Space = <<>> THEN tree[e].Tag
  ELSE tree[e].Space \o <<58>> \o tree[e].Tag

RECURSIVE NamespaceURI(_, _)
\* namespace_uri: the URI bound to the prefix of e in the scope of at
NamespaceURI(e, at) ==
  LET binds(a) == IF tree[e].Space = <<>>
                  THEN a.Space = <<>> /\ a.Key = <<120, 109, 108, 110, 115>>
                  ELSE a.Space = <<120, 109, 108, 110, 115>> /\ a.Key = tree[e].Space
      found(as) == IF Len(as) > 0 THEN Head(as).Value
                   ELSE IF tree[at].parent = 0 THEN <<>>
                   ELSE NamespaceURI(e, tree[at].parent)
  IN  found(SelectSeq(tree[at].Attr, binds))

\* the function that fnTable keeps under the name fn, applied to e
fn_apply(fn, e) ==
  IF fn = <<116, 101, 120, 116>> THEN Text(e)
  ELSE IF fn = <<110, 97, 109, 101>> THEN FullTag(e)
  ELSE IF fn = <<108, 111, 99, 97, 108, 45, 110, 97, 109, 101>> THEN tree[e].Tag
  ELSE IF fn = <<110, 97, 109, 101, 115, 112, 97, 99, 101, 45, 112, 114, 101, 102, 105, 120>>
    THEN tree[e].Space
  ELSE NamespaceURI(e, e)

filterByExistsFunc_eval(f, in) ==
  addEach(newCandidates, SelectSeq(in.list, LAMBDA ch : fn_apply(f.fn, ch) # <<>>))

filterByValueFunc_eval(f, in) ==
  addEach(newCandidates, SelectSeq(in.list, LAMBDA ch : fn_apply(f.fn, ch) = f.value))

filterExpr_eval(f, in) ==
  IF f.t = "filterIndex" THEN filterIndex_eval(f, in)
  ELSE IF f.t = "filterAttrib" THEN filterAttrib_eval(f, in)
  ELSE IF f.t = "filterAttribValue" THEN filterAttribValue_eval(f, in)
  ELSE IF f.t = "filterChild" THEN filterChild_eval(f, in)
  ELSE IF f.t = "filterChildText" THEN filterChildText_eval(f, in)
  ELSE IF f.t = "filterByExistsFunc" THEN filterByExistsFunc_eval(f, in)
  ELSE filterByValueFunc_eval(f, in)

---------------------------------------------------------------------------
(* pather *)

RECURSIVE evalFilterLoop(_, _, _)
evalFilterLoop(exprs, in, out) ==
  IF Len(exprs) = 0 THEN out
  ELSE evalFilterLoop(Tail(exprs), in, merge(out, filterExpr_eval(Head(exprs), in)))

\* an evalFilter that returns what its first expression gives, unmerged
evalFilter_unmerged(f, in) == filterExpr_eval(f.exprs[1], in)

evalFilter(f, in) == evalFilterLoop(f.exprs, in, newCandidates)

RECURSIVE filtersLoop(_, _)
\* the filter loop of evalSegmentExpr, which stops at an empty list
filtersLoop(filters, out) ==
  IF Len(filters) = 0 \/ Len(out.list) = 0 THEN out
  ELSE filtersLoop(Tail(filters), evalFilter(Head(filters), out))

evalSegmentExpr(e, expr) == filtersLoop(expr.filters, selector_eval(expr.sel, e))

RECURSIVE evalSegmentLoop_concat(_, _, _)
\* an evalSegment that appends the candidates of every expression
evalSegmentLoop_concat(e, exprs, out) ==
  IF Len(exprs) = 0 THEN out
  ELSE evalSegmentLoop_concat(e, Tail(exprs),
                              addEach(out, evalSegmentExpr(e, Head(exprs)).list))

RECURSIVE evalSegmentLoop(_, _, _)
evalSegmentLoop(e, exprs, out) ==
  IF Len(exprs) = 0 THEN out
  ELSE evalSegmentLoop(e, Tail(exprs), merge(out, evalSegmentExpr(e, Head(exprs))))

evalSegment(e, s) == evalSegmentLoop(e, s.exprs, newCandidates)

\* a traverse that puts the new nodes in front of the waiting ones
enqueueEach_front(q, es, remain) ==
  [i \in 1..Len(es) |-> [e |-> es[i], segments |-> remain]] \o q

\* the nodes traverse adds to its queue for the candidates es
RECURSIVE enqueueEach(_, _, _)
enqueueEach(q, es, remain) ==
  IF Len(es) = 0 THEN q
  ELSE enqueueEach(fifo_add(q, [e |-> Head(es), segments |-> remain]),
                   Tail(es), remain)

\* one iteration of traverse's loop on a queue that is not empty: the queue
\* and out after it, or panic
traverseIteration(queue, out) ==
  LET stopped(r) == [queue |-> r.q, out |-> out, panic |-> TRUE]
      evaluated(r, c) ==
        IF c.panic THEN stopped(r)
        ELSE IF Len(r.v.segments) = 1
          THEN [queue |-> r.q, out |-> merge(out, c), panic |-> FALSE]
        ELSE [queue |-> enqueueEach(r.q, c.list, Tail(r.v.segments)),
              out |-> out, panic |-> FALSE]
      removed(r) ==
        IF Len(r.v.segments) = 0 THEN stopped(r)   \* n.segments[0] out of range
        ELSE evaluated(r, evalSegment(r.v.e, r.v.segments[1]))
  IN  removed(fifo_remove(queue))

\* traverse's loop, run to its end: the list it returns, or panic
RECURSIVE traverseLoop(_, _)
traverseLoop(queue, out) ==
  LET rest(s) == IF s.panic THEN [list |-> <<>>, panic |-> TRUE]
                 ELSE traverseLoop(s.queue, s.out)
  IN  IF fifo_len(queue) = 0 THEN [list |-> out.list, panic |-> FALSE]
      ELSE rest(traverseIteration(queue, out))

traverse(e, segments) ==
  traverseLoop(fifo_add(<<>>, [e |-> e, segments |-> segments]), newCandidates)

\* e.FindElementsPath(path) for the path CompilePath makes of toks
FindElementsPath(e, toks) ==
  LET found(c) ==
        IF c.err THEN [err |-> TRUE, panic |-> FALSE, list |-> <<>>]
        ELSE [err |-> FALSE] @@ traverse(e, c.segments)
  IN  found(compileTokens(toks))

---------------------------------------------------------------------------
(* Values of the variables that a run does not use *)

NoTz == [st |-> "off", s |-> <<>>, toks |-> <<>>]
NoCp == [st |-> "off", err |-> FALSE, segments |-> <<>>]
NoTree == <<>>
NoEv == [pc |-> "off", queue |-> <<>>, out |-> <<>>, result |-> <<>>, first |-> 0]
NoHist == [arrivals |-> <<>>, enq |-> <<>>, deq |-> <<>>, from |-> <<>>]
NoFx == [st |-> "off"]

\* all sequences over S of length at most n
SeqsUpTo(S, n) == UNION { [1..k -> S] : k \in 0..n }

---------------------------------------------------------------------------
(* CompilePath: tokenizePath's loop, one lexeme per step, then parsePath *)

\* one iteration of tokenizePath's loop (CompilePath returns on its error)
tokenizePathStep ==
  /\ tz.st = "loop"
  /\ Len(tz.s) > 0
  /\ Len(tz.toks) < MaxTokLoop
  /\ LET body(l) ==
           IF l.err \/ l.t.id = "tokNil"
           THEN /\ tz' = [tz EXCEPT !.st = "err"]
                /\ cp' = [st |-> "done", err |-> TRUE, segments |-> <<>>]
           ELSE /\ tz' = [tz EXCEPT !.s = consumeWhitespace(l.remain),
                                    !.toks = Append(tz.toks, l.t)]
                /\ cp' = cp
     IN  body(tokenizeLexeme(tz.s))
  /\ UNCHANGED <<input, tree, start, ev, hist, fx>>

\* tokenizePath's loop ends, parsePath runs and CompilePath returns
CompileReturn ==
  /\ tz.st = "loop"
  /\ Len(tz.s) = 0
  /\ tz' = [tz EXCEPT !.st = "ok"]
  /\ cp' = [st |-> "done"] @@ compileTokens(tz.toks)
  /\ UNCHANGED <<input, tree, start, ev, hist, fx>>

\* bytes of the path strings: A b _ 1 - / . space tab newline ' " [ and
\* the two bytes of U+00E9
TokBytes == {65, 98, 95, 49, 45, 47, 46, 32, 9, 10, 39, 34, 91, 195, 169}

InitTok ==
  /\ input \in SeqsUpTo(TokBytes, MaxPathLen)
  /\ tz = [st |-> "loop", s |-> consumeWhitespace(input), toks |-> <<>>]
  /\ cp = [st |-> "wait", err |-> FALSE, segments |-> <<>>]
  /\ tree = NoTree /\ start = 0 /\ ev = NoEv /\ hist = NoHist /\ fx = NoFx

NextTok == tokenizePathStep \/ CompileReturn

SpecTok == InitTok /\ [][NextTok]_vars

---------------------------------------------------------------------------
(* parsePath on every token list over the token alphabet *)

\* one token of each kind; identifiers a and text, number 1, string v
ParseAlphabet ==
  { Tok(id, <<>>) : id \in {"tokSep", "tokSepRecurse", "tokLBracket",
                            "tokRBracket", "tokLParen", "tokRParen",
                            "tokUnion", "tokEqual", "tokColon", "tokAt",
                            "tokSelf", "tokParent", "tokChildren"} }
    \cup { Tok("tokIdentifier", <<97>>), Tok("tokIdentifier", <<116, 101, 120, 116>>),
           Tok("tokNumber", <<49>>), Tok("tokString", <<118>>) }

\* tokenizePath has collected toks and the input is used up
InitWithToks(toks) ==
  /\ input = <<>>
  /\ tz = [st |-> "loop", s |-> <<>>, toks |-> toks]
  /\ cp = [st |-> "wait", err |-> FALSE, segments |-> <<>>]
  /\ tree = NoTree /\ start = 0 /\ ev = NoEv /\ hist = NoHist /\ fx = NoFx

InitParse == \E toks \in SeqsUpTo(ParseAlphabet, MaxToks) : InitWithToks(toks)

SpecParse == InitParse /\ [][CompileReturn]_vars

\* the tokens that may follow  a [  in the filter runs
FilterAlphabet ==
  { Tok(id, <<>>) : id \in {"tokRBracket", "tokLParen", "tokRParen",
                            "tokUnion", "tokEqual", "tokColon", "tokAt"} }
    \cup { Tok("tokIdentifier", <<97>>), Tok("tokIdentifier", <<116, 101, 120, 116>>),
           Tok("tokNumber", <<49>>), Tok("tokString", <<120>>) }

InitFilter ==
  \E rest \in SeqsUpTo(FilterAlphabet, MaxFilterToks) :
    InitWithToks(<<Tok("tokIdentifier", <<97>>), Tok("tokLBracket", <<>>)>> \o rest)

SpecFilter == InitFilter /\ [][CompileReturn]_vars

---------------------------------------------------------------------------
(* FindElementsPath / FindElementPath on a compiled path: traverse, one    *)
(* iteration of its loop per step.  hist keeps the history of the run: the *)
(* nodes in the order they entered (enq) and left (deq) the queue, for     *)
(* each node that entered the number of segments of the node it was        *)
(* produced from (from, 0 for the first node), and the candidates of the   *)
(* final segment in the order traverse received them (arrivals).           *)

\* the child tokens of e under the parent map p of the elements c..n, in
\* document order
RECURSIVE childTokens(_, _, _, _)
childTokens(p, e, c, n) ==
  IF c > n THEN <<>>
  ELSE (IF p[c] = e THEN <<[kind |-> "Element", e |-> c]>> ELSE <<>>)
       \o childTokens(p, e, c + 1, n)

\* the document of the elements 1..n with the parents p and the tags tg
Document(n, p, tg) ==
  [e \in 1..n |-> [Space |-> <<>>, Tag |-> tg[e], Attr |-> <<>>,
                   Child |-> childTokens(p, e, 1, n), parent |-> p[e]]]

Tags == {<<97>>, <<98>>}

\* the documents of MaxElems elements: element 1 is the root, an element is
\* created after its parent, the root has tag a
Trees ==
  { Document(MaxElems, p, tg) :
      p \in { q \in [Elems -> 0..MaxElems] :
                \A i \in Elems : IF i = 1 THEN q[i] = 0
                                 ELSE q[i] >= 1 /\ q[i] < i },
      tg \in { g \in [Elems -> Tags] : g[1] = <<97>> } }

\* a root with largeListSize children, tags a and b in turn: its candidate
\* lists are long enough for the table of candidates
WideTree ==
  Document(largeListSize + 1,
           [e \in 1..(largeListSize + 1) |-> IF e = 1 THEN 0 ELSE 1],
           [e \in 1..(largeListSize + 1) |-> IF e % 2 = 1 THEN <<97>> ELSE <<98>>])

\* the elements a run starts from: any of a small document, the root or
\* its first child of the wide one
Starts(tr) == IF tr = WideTree THEN {1, 2} ELSE DOMAIN tr

RECURSIVE Digits(_)
\* the decimal digits of n >= 0
Digits(n) == IF n < 10 THEN <<48 + n>> ELSE Digits(n \div 10) \o <<48 + (n % 10)>>

\* the number literal of n
Itoa(n) == IF n < 0 THEN <<45>> \o Digits(0 - n) ELSE Digits(n)

\* . .. * a | [ ] / // and the numbers 1, -1 and the least int
EvalAlphabet ==
  { Tok(id, <<>>) : id \in {"tokSep", "tokSepRecurse", "tokLBracket",
                            "tokRBracket", "tokUnion", "tokSelf", "tokParent",
                            "tokChildren"} }
    \cup { Tok("tokIdentifier", <<97>>), Tok("tokNumber", Itoa(1)),
           Tok("tokNumber", Itoa(-1)), Tok("tokNumber", Itoa(MinInt)) }

\* CompilePath has returned the path of toks without an error
InitEval ==
  \E toks \in SeqsUpTo(EvalAlphabet, MaxEvalToks) :
    LET compiled(c) ==
          /\ ~c.err
          /\ cp = [st |-> "done"] @@ c
    IN  /\ compiled(compileTokens(toks))
        /\ input = <<>>
        /\ tz = [st |-> "ok", s |-> <<>>, toks |-> toks]
        /\ tree = NoTree /\ start = 0 /\ hist = NoHist /\ fx = NoFx
        /\ ev = [NoEv EXCEPT !.pc = "idle"]

\* e.FindElementsPath(path): traverse starts with the node {e, path.segments}
traverseStart ==
  /\ ev.pc = "idle"
  /\ \E tr \in Trees \cup {WideTree} : \E e \in Starts(tr) :
       LET n == [e |-> e, segments |-> cp.segments]
       IN  /\ tree' = tr
           /\ start' = e
           /\ ev' = [pc |-> "loop", queue |-> fifo_add(<<>>, n),
                     out |-> newCandidates, result |-> <<>>, first |-> 0]
           /\ hist' = [arrivals |-> <<>>, enq |-> <<n>>, deq |-> <<>>,
                      from |-> <<0>>]
  /\ UNCHANGED <<input, tz, cp, fx>>

\* an iteration of traverse's loop that detaches the children of the
\* start element
traverseStep_detach ==
  /\ ev.pc = "loop"
  /\ fifo_len(ev.queue) > 0
  /\ ev' = [ev EXCEPT !.queue = fifo_remove(ev.queue).q]
  /\ tree' = [tree EXCEPT ![start].Child = <<>>]
  /\ UNCHANGED <<input, tz, cp, start, hist, fx>>

\* one iteration of traverse's loop
traverseStep ==
  /\ ev.pc = "loop"
  /\ fifo_len(ev.queue) > 0
  /\ LET last(r, c) ==
           /\ ev' = [ev EXCEPT !.queue = r.q, !.out = merge(ev.out, c)]
           /\ hist' = [hist EXCEPT !.deq = Append(hist.deq, r.v),
                                   !.arrivals = hist.arrivals \o c.list]
         more(r, c, remain) ==
           /\ ev' = [ev EXCEPT !.queue = enqueueEach(r.q, c.list, remain)]
           /\ hist' = [hist EXCEPT
                         !.deq = Append(hist.deq, r.v),
                         !.enq = hist.enq \o
                                 [i \in 1..Len(c.list) |->
                                    [e |-> c.list[i], segments |-> remain]],
                         !.from = hist.from \o
                                  [i \in 1..Len(c.list) |-> Len(r.v.segments)]]
         panic(r) ==
           /\ ev' = [ev EXCEPT !.pc = "panic", !.queue = r.q]
           /\ hist' = [hist EXCEPT !.deq = Append(hist.deq, r.v)]
         evaluated(r, c) ==
           IF c.panic THEN panic(r)
           ELSE IF Len(r.v.segments) = 1 THEN last(r, c)
           ELSE more(r, c, Tail(r.v.segments))
         removed(r) ==
           IF Len(r.v.segments) = 0 THEN panic(r)   \* n.segments[0] out of range
           ELSE evaluated(r, evalSegment(r.v.e, r.v.segments[1]))
     IN  removed(fifo_remove(ev.queue))
  /\ UNCHANGED <<input, tz, cp, tree, start, fx>>

\* the queue is empty: traverse returns out.list, FindElementPath its first
\* element or nil
traverseReturn ==
  /\ ev.pc = "loop"
  /\ fifo_len(ev.queue) = 0
  /\ ev' = [ev EXCEPT !.pc = "done", !.result = ev.out.list,
                      !.first = IF Len(ev.out.list) = 0 THEN 0
                                ELSE ev.out.list[1]]
  /\ UNCHANGED <<input, tz, cp, tree, start, hist, fx>>

NextEval == traverseStart \/ traverseStep \/ traverseReturn

SpecEval == InitEval /\ [][NextEval]_vars

---------------------------------------------------------------------------
(* The filter [n] on a candidate list: the path *[n] is compiled and its   *)
(* filterIndex is applied to a list of len elements.                       *)

\* the filterIndex expression of the compiled path  *[lit]
indexFilterOf(lit) ==
  LET pick(c) == c.segments[1].exprs[1].filters[1].exprs[1]
  IN  pick(compileTokens(<<Tok("tokChildren", <<>>), Tok("tokLBracket", <<>>),
                           Tok("tokNumber", lit), Tok("tokRBracket", <<>>)>>))

InitIndex ==
  \E n \in (MinInt - 1)..(MaxInt + 1), len \in 0..MaxList :
    /\ fx = [st |-> "call", n |-> n, f |-> indexFilterOf(Itoa(n)),
             in |-> addEach(newCandidates, [i \in 1..len |-> i]),
             out |-> newCandidates]
    /\ input = <<>> /\ tz = NoTz /\ cp = NoCp
    /\ tree = NoTree /\ start = 0 /\ ev = NoEv /\ hist = NoHist

\* filterIndex.eval returns, or panics
filterIndexEval ==
  /\ fx.st = "call"
  /\ fx' = [fx EXCEPT !.st = "done", !.out = filterIndex_eval(fx.f, fx.in)]
  /\ UNCHANGED <<input, tz, cp, tree, start, ev, hist>>

SpecIndex == InitIndex /\ [][filterIndexEval]_vars

---------------------------------------------------------------------------
(* evalFilter on a candidate list: the filter of the compiled path          *)
(* *[inner] is applied to the children or to the descendants of an element. *)

\* 1 2 -1 a | ( )
InnerAlphabet ==
  { Tok(id, <<>>) : id \in {"tokUnion", "tokLParen", "tokRParen"} }
    \cup { Tok("tokIdentifier", <<97>>), Tok("tokNumber", Itoa(1)),
           Tok("tokNumber", Itoa(2)), Tok("tokNumber", Itoa(-1)) }

\* the tokens of the path  *[inner]
filterPath(inner) ==
  <<Tok("tokChildren", <<>>), Tok("tokLBracket", <<>>)>> \o inner
    \o <<Tok("tokRBracket", <<>>)>>

InitFilterEval ==
  \E inner \in SeqsUpTo(InnerAlphabet, MaxInnerToks) :
    \E tr \in Trees \cup {WideTree} : \E e \in Starts(tr) :
      \E s \in {Sel("selectChildren", <<>>, <<>>), Sel("selectDescendants", <<>>, <<>>)} :
        LET compiled(c) ==
              /\ ~c.err
              /\ cp = [st |-> "done"] @@ c
        IN  /\ compiled(compileTokens(filterPath(inner)))
            /\ input = <<>>
            /\ tz = [st |-> "ok", s |-> <<>>, toks |-> filterPath(inner)]
            /\ tree = tr /\ start = e /\ ev = NoEv /\ hist = NoHist
            /\ fx = [st |-> "filter", sel |-> s, out |-> newCandidates]

\* the candidates the selector of the run gives for the start element
filterInput == selector_eval(fx.sel, start)

\* pather.evalFilter returns
evalFilterCall ==
  /\ fx.st = "filter"
  /\ fx' = [fx EXCEPT !.st = "filtered",
                      !.out = evalFilter(cp.segments[1].exprs[1].filters[1],
                                         filterInput)]
  /\ UNCHANGED <<input, tz, cp, tree, start, ev, hist>>

SpecFilterEval == InitFilterEval /\ [][evalFilterCall]_vars

\* expr.eval(e, in) returns for one of the filter's expressions
filterExprCall ==
  /\ fx.st = "filter"
  /\ \E i \in 1..Len(cp.segments[1].exprs[1].filters[1].exprs) :
       fx' = [fx EXCEPT !.st = "expr",
                        !.out = filterExpr_eval(
                                  cp.segments[1].exprs[1].filters[1].exprs[i],
                                  filterInput)]
  /\ UNCHANGED <<input, tz, cp, tree, start, ev, hist>>

NextExprEval == filterExprCall \/ evalFilterCall

SpecExprEval == InitFilterEval /\ [][NextExprEval]_vars

---------------------------------------------------------------------------
(* candidates: add calls and then a merge on a receiver of 0 to            *)
(* largeListSize + 1 distinct elements, built by add or by merge.          *)

\* the elements that are added and merged: the first, the one that makes
\* the list large, and one that no receiver holds at the start
CandElems == {1, largeListSize, largeListSize + 2}

InitCand ==
  \E k \in 0..(largeListSize + 1) : \E byMerge \in BOOLEAN :
    LET filled(c) ==
          fx = [st |-> "cand", adds |-> 0, op |-> "none", arg |-> <<>>,
                old |-> <<>>,
                c |-> IF byMerge THEN merge(newCandidates, c) ELSE c]
    IN  /\ filled(addEach(newCandidates, [i \in 1..k |-> i]))
        /\ input = <<>> /\ tz = NoTz /\ cp = NoCp
        /\ tree = NoTree /\ start = 0 /\ ev = NoEv /\ hist = NoHist

\* c.add(e)
addCall ==
  /\ fx.st = "cand"
  /\ fx.adds < MaxAdds
  /\ \E e \in CandElems :
       fx' = [fx EXCEPT !.adds = fx.adds + 1, !.op = "add", !.arg = <<e>>,
                        !.old = fx.c.list, !.c = add(fx.c, e)]
  /\ UNCHANGED <<input, tz, cp, tree, start, ev, hist>>

\* c.merge(other), other filled by add calls
mergeCall ==
  /\ fx.st = "cand"
  /\ \E other \in SeqsUpTo(CandElems, MaxOther) :
       fx' = [fx EXCEPT !.st = "merged", !.op = "merge", !.arg = other,
                        !.old = fx.c.list,
                        !.c = merge(fx.c, addEach(newCandidates, other))]
  /\ UNCHANGED <<input, tz, cp, tree, start, ev, hist>>

NextCand == addCall \/ mergeCall

SpecCand == InitCand /\ [][NextCand]_vars

---------------------------------------------------------------------------
(* Two paths at one small document: a path p that compiles is evaluated   *)
(* next to /p, to ./p, or, when it ends in //, to p followed by *.         *)

NoResult == [err |-> FALSE, panic |-> FALSE, list |-> <<>>]

InitEquiv ==
  \E toks \in SeqsUpTo(EvalAlphabet, MaxEquivToks) :
    \E tr \in Trees : \E e \in Starts(tr) :
      LET compiled(c) ==
            /\ ~c.err
            /\ cp = [st |-> "done"] @@ c
      IN  /\ compiled(compileTokens(toks))
          /\ input = <<>>
          /\ tz = [st |-> "ok", s |-> <<>>, toks |-> toks]
          /\ tree = tr /\ start = e /\ ev = NoEv /\ hist = NoHist
          /\ fx = [st |-> "ready", rel |-> "none", other |-> <<>>,
                   left |-> NoResult, right |-> NoResult]

\* the path does not begin with / or //
Relative(toks) == peekID(toks) \notin {"tokSep", "tokSepRecurse"}

\* /p at the start element next to p at the topmost element above it
evalAbsolute ==
  /\ fx.st = "ready"
  /\ Relative(tz.toks)
  /\ LET other == <<Tok("tokSep", <<>>)>> \o tz.toks
     IN  fx' = [st |-> "done", rel |-> "absolute", other |-> other,
                left |-> FindElementsPath(start, other),
                right |-> FindElementsPath(rootOf(start), tz.toks)]
  /\ UNCHANGED <<input, tz, cp, tree, start, ev, hist>>

\* p next to ./p, both at the start element
evalDotSlash ==
  /\ fx.st = "ready"
  /\ Relative(tz.toks)
  /\ LET other == <<Tok("tokSelf", <<>>), Tok("tokSep", <<>>)>> \o tz.toks
     IN  fx' = [st |-> "done", rel |-> "dotslash", other |-> other,
                left |-> FindElementsPath(start, tz.toks),
                right |-> FindElementsPath(start, other)]
  /\ UNCHANGED <<input, tz, cp, tree, start, ev, hist>>

\* a path that ends in // next to the same path followed by *
evalTrailing ==
  /\ fx.st = "ready"
  /\ tz.toks[Len(tz.toks)].id = "tokSepRecurse"
  /\ LET other == Append(tz.toks, Tok("tokChildren", <<>>))
     IN  fx' = [st |-> "done", rel |-> "trailing", other |-> other,
                left |-> FindElementsPath(start, tz.toks),
                right |-> FindElementsPath(start, other)]
  /\ UNCHANGED <<input, tz, cp, tree, start, ev, hist>>

NextEquiv == evalAbsolute \/ evalDotSlash \/ evalTrailing

SpecEquiv == InitEquiv /\ [][NextEquiv]_vars

---------------------------------------------------------------------------
(* Two evaluations of one compiled path on one document, each with its own *)
(* pather, queue and out, their loop iterations interleaved in any order.  *)

Procs == {1, 2}

IdleRun(e) == [e |-> e, pc |-> "idle", queue |-> <<>>, out |-> newCandidates,
               result |-> <<>>]

InitConc ==
  \E toks \in SeqsUpTo(EvalAlphabet, MaxConcToks) :
    \E tr \in Trees : \E e1, e2 \in Starts(tr) :
      LET compiled(c) ==
            /\ ~c.err
            /\ cp = [st |-> "done"] @@ c
      IN  /\ compiled(compileTokens(toks))
          /\ input = <<>>
          /\ tz = [st |-> "ok", s |-> <<>>, toks |-> toks]
          /\ tree = tr /\ start = e1 /\ ev = NoEv /\ hist = NoHist
          /\ fx = [st |-> "conc", runs |-> <<IdleRun(e1), IdleRun(e2)>>]

\* evaluation i enters traverse: its queue holds {e, path.segments}
concStart(i) ==
  /\ fx.st = "conc"
  /\ fx.runs[i].pc = "idle"
  /\ fx' = [fx EXCEPT !.runs[i].pc = "loop",
                      !.runs[i].queue =
                         fifo_add(<<>>, [e |-> fx.runs[i].e,
                                         segments |-> cp.segments])]
  /\ UNCHANGED <<input, tz, cp, tree, start, ev, hist>>

\* a step of evaluation i that keeps one queue for both evaluations
concStep_sharedQueue(i) ==
  /\ fx.st = "conc"
  /\ fx.runs[i].pc = "loop"
  /\ fifo_len(fx.runs[i].queue) > 0
  /\ LET stepped(s) ==
           fx' = [fx EXCEPT !.runs[i].pc = IF s.panic THEN "panic" ELSE "loop",
                            !.runs[i].out = s.out,
                            !.runs[1].queue = s.queue]
     IN  stepped(traverseIteration(fx.runs[i].queue, fx.runs[i].out))
  /\ UNCHANGED <<input, tz, cp, tree, start, ev, hist>>

\* one iteration of the loop of evaluation i
concStep(i) ==
  /\ fx.st = "conc"
  /\ fx.runs[i].pc = "loop"
  /\ fifo_len(fx.runs[i].queue) > 0
  /\ LET stepped(s) ==
           fx' = [fx EXCEPT !.runs[i].pc = IF s.panic THEN "panic" ELSE "loop",
                            !.runs[i].out = s.out,
                            !.runs[i].queue = s.queue]
     IN  stepped(traverseIteration(fx.runs[i].queue, fx.runs[i].out))
  /\ UNCHANGED <<input, tz, cp, tree, start, ev, hist>>

\* the queue of evaluation i is empty: it returns out.list
concReturn(i) ==
  /\ fx.st = "conc"
  /\ fx.runs[i].pc = "loop"
  /\ fifo_len(fx.runs[i].queue) = 0
  /\ fx' = [fx EXCEPT !.runs[i].pc = "done",
                      !.runs[i].result = fx.runs[i].out.list]
  /\ UNCHANGED <<input, tz, cp, tree, start, ev, hist>>

NextConc == \E i \in Procs : concStart(i) \/ concStep(i) \/ concReturn(i)

SpecConc == InitConc /\ [][NextConc]_vars

---------------------------------------------------------------------------
(* Function filters: a[name()] and a[name()='x'], the name with or without *)
(* a prefix, for the five function names and for the names over t, e, x.   *)

\* local-name, name, namespace-prefix, namespace-uri, text
KnownFunctions ==
  { <<108, 111, 99, 97, 108, 45, 110, 97, 109, 101>>,
    <<110, 97, 109, 101>>,
    <<110, 97, 109, 101, 115, 112, 97, 99, 101, 45, 112, 114, 101, 102, 105, 120>>,
    <<110, 97, 109, 101, 115, 112, 97, 99, 101, 45, 117, 114, 105>>,
    <<116, 101, 120, 116>> }

FunctionNames ==
  KnownFunctions \cup (SeqsUpTo({116, 101, 120}, MaxNameLen) \ {<<>>})

funcPath(name, prefixed, valued) ==
  <<Tok("tokIdentifier", <<97>>), Tok("tokLBracket", <<>>)>>
    \o (IF prefixed THEN <<Tok("tokIdentifier", <<112>>), Tok("tokColon", <<>>)>>
        ELSE <<>>)
    \o <<Tok("tokIdentifier", name), Tok("tokLParen", <<>>),
         Tok("tokRParen", <<>>)>>
    \o (IF valued THEN <<Tok("tokEqual", <<>>), Tok("tokString", <<120>>)>>
        ELSE <<>>)
    \o <<Tok("tokRBracket", <<>>)>>

InitFunc ==
  \E name \in FunctionNames : \E prefixed, valued \in BOOLEAN :
    /\ input = <<>>
    /\ tz = [st |-> "loop", s |-> <<>>, toks |-> funcPath(name, prefixed, valued)]
    /\ cp = [st |-> "wait", err |-> FALSE, segments |-> <<>>]
    /\ tree = NoTree /\ start = 0 /\ ev = NoEv /\ hist = NoHist
    /\ fx = [st |-> "func", name |-> name, prefixed |-> prefixed,
             valued |-> valued]

SpecFunc == InitFunc /\ [][CompileReturn]_vars

---------------------------------------------------------------------------
(* Two filters in a row: the segment expression *[tag][n] on the children  *)
(* or the descendants of a start element.                                  *)

chainPath(tag, n) ==
  <<Tok("tokChildren", <<>>), Tok("tokLBracket", <<>>),
    Tok("tokIdentifier", tag), Tok("tokRBracket", <<>>),
    Tok("tokLBracket", <<>>), Tok("tokNumber", Itoa(n)),
    Tok("tokRBracket", <<>>)>>

InitChain ==
  \E tag \in Tags : \E n \in 1..MaxIndex :
    \E tr \in Trees \cup {WideTree} : \E e \in Starts(tr) :
      \E s \in {Sel("selectChildren", <<>>, <<>>), Sel("selectDescendants", <<>>, <<>>)} :
        LET compiled(c) ==
              /\ ~c.err
              /\ cp = [st |-> "done"] @@ c
        IN  /\ compiled(compileTokens(chainPath(tag, n)))
            /\ input = <<>>
            /\ tz = [st |-> "ok", s |-> <<>>, toks |-> chainPath(tag, n)]
            /\ tree = tr /\ start = e /\ ev = NoEv /\ hist = NoHist
            /\ fx = [st |-> "chain", sel |-> s, tag |-> tag, n |-> n,
                     out |-> newCandidates]

\* pather.evalSegmentExpr returns
evalSegmentExprCall ==
  /\ fx.st = "chain"
  /\ fx' = [fx EXCEPT !.st = "chained",
                      !.out = evalSegmentExpr(
                                start,
                                segmentExpr(fx.sel,
                                            cp.segments[1].exprs[1].filters))]
  /\ UNCHANGED <<input, tz, cp, tree, start, ev, hist>>

SpecChain == InitChain /\ [][evalSegmentExprCall]_vars

---------------------------------------------------------------------------
(* The descendants selector on documents whose Child lists hold text,      *)
(* comments, directives and processing instructions between the elements.  *)

OtherKinds == <<"CharData", "Comment", "Directive", "ProcInst">>

RECURSIVE mixedTokens(_, _, _, _, _)
\* the Child list of e: its child elements in order, each after a token
\* that is no element when lead says so; the kinds take turns
mixedTokens(p, lead, e, c, n) ==
  IF c > n THEN <<>>
  ELSE (IF p[c] = e
        THEN (IF lead[c] THEN <<[kind |-> OtherKinds[((c - 2) % 4) + 1], e |-> 0]>>
              ELSE <<>>) \o <<[kind |-> "Element", e |-> c]>>
        ELSE <<>>)
       \o mixedTokens(p, lead, e, c + 1, n)

\* the document of the elements 1..n with the parents p; an element with
\* lead[e] and no parent holds a processing instruction after its children
MixedDocument(n, p, lead) ==
  [e \in 1..n |->
     [Space |-> <<>>, Tag |-> <<97>>, Attr |-> <<>>, parent |-> p[e],
      Child |-> mixedTokens(p, lead, e, 1, n)
                  \o (IF p[e] = 0 /\ lead[e]
                      THEN <<[kind |-> "ProcInst", e |-> 0]>> ELSE <<>>)]]

MixedTrees ==
  { MixedDocument(MaxDescElems, p, lead) :
      p \in { q \in [1..MaxDescElems -> 0..MaxDescElems] :
                \A i \in 1..MaxDescElems : IF i = 1 THEN q[i] = 0
                                           ELSE q[i] >= 1 /\ q[i] < i },
      lead \in [1..MaxDescElems -> BOOLEAN] }

InitDesc ==
  \E tr \in MixedTrees : \E e \in DOMAIN tr :
    /\ input = <<>> /\ tz = NoTz /\ cp = NoCp
    /\ tree = tr /\ start = e /\ ev = NoEv /\ hist = NoHist
    /\ fx = [st |-> "select", out |-> newCandidates]

\* selectDescendants.eval(e) returns
selectDescendantsCall ==
  /\ fx.st = "select"
  /\ fx' = [fx EXCEPT !.st = "selected", !.out = selectDescendants_eval(start)]
  /\ UNCHANGED <<input, tz, cp, tree, start, ev, hist>>

SpecDesc == InitDesc /\ [][selectDescendantsCall]_vars

---------------------------------------------------------------------------
(* Union segments: x|y for segment expressions x and y, next to x alone    *)
(* and y alone.                                                            *)

\* a  b  *  .  ..  *[1]  *[a]
UnionExprs ==
  { <<Tok("tokIdentifier", <<97>>)>>, <<Tok("tokIdentifier", <<98>>)>>,
    <<Tok("tokChildren", <<>>)>>, <<Tok("tokSelf", <<>>)>>,
    <<Tok("tokParent", <<>>)>>,
    <<Tok("tokChildren", <<>>), Tok("tokLBracket", <<>>),
      Tok("tokNumber", Itoa(1)), Tok("tokRBracket", <<>>)>>,
    <<Tok("tokChildren", <<>>), Tok("tokLBracket", <<>>),
      Tok("tokIdentifier", <<97>>), Tok("tokRBracket", <<>>)>> }

InitUnion ==
  \E x, y \in UnionExprs :
    \E tr \in Trees \cup {WideTree} : \E e \in Starts(tr) :
      LET toks == x \o <<Tok("tokUnion", <<>>)>> \o y
          compiled(c, cx, cy) ==
            /\ ~c.err /\ ~cx.err /\ ~cy.err
            /\ cp = [st |-> "done"] @@ c
            /\ fx = [st |-> "union", x |-> cx.segments[1], y |-> cy.segments[1],
                     left |-> newCandidates, right |-> newCandidates,
                     out |-> newCandidates]
      IN  /\ compiled(compileTokens(toks), compileTokens(x), compileTokens(y))
          /\ input = <<>>
          /\ tz = [st |-> "ok", s |-> <<>>, toks |-> toks]
          /\ tree = tr /\ start = e /\ ev = NoEv /\ hist = NoHist

\* pather.evalSegment returns for x|y, for x and for y
evalSegmentCall ==
  /\ fx.st = "union"
  /\ fx' = [fx EXCEPT !.st = "united",
                      !.out = evalSegment(start, cp.segments[1]),
                      !.left = evalSegment(start, fx.x),
                      !.right = evalSegment(start, fx.y)]
  /\ UNCHANGED <<input, tz, cp, tree, start, ev, hist>>

SpecUnion == InitUnion /\ [][evalSegmentCall]_vars

\* compiling and evaluating together: every token list of the compile runs
\* and every run of traverse
InitCompileEval == InitParse \/ InitFilter \/ InitEval

NextCompileEval == CompileReturn \/ NextEval

SpecCompileEval == InitCompileEval /\ [][NextCompileEval]_vars

---------------------------------------------------------------------------
(* Tree building: the elements made so far, in the order they were made;  *)
(* tree[e] is the element at the address e, fx.docs the elements embedded *)
(* in a Document.                                                         *)

MaxHeap == 5         \* elements the operations may make

\* &Element{...} with these fields, at the next address
allocate(h, space, tag, attr, child, parent) ==
  Append(h, [Space |-> space, Tag |-> tag, Attr |-> attr, Child |-> child,
             parent |-> parent])

\* NewDocument: Document{Element{Child: make([]Token, 0)}}
NewDocument(h) == allocate(h, <<>>, <<>>, <<>>, <<>>, 0)

\* e.addChild(t)
addChild(h, e, t) == [h EXCEPT ![e].Child = Append(@, t)]

RECURSIVE dup(_, _, _)
RECURSIVE dupChildren(_, _, _, _)
\* the loop of Element.dup over e.Child from the index i on:
\* ne.Child[i] = t.dup(ne), where r is the copy of an element token
dupChildren(h, e, ne, i) ==
  LET place(r) ==
        dupChildren(addChild(r.h, ne, [kind |-> "Element", e |-> r.t]),
                    e, ne, i + 1)
  IN IF i > Len(h[e].Child) THEN h
     ELSE IF h[e].Child[i].kind = "Element"
          THEN place(dup(h, h[e].Child[i].e, ne))
          ELSE dupChildren(addChild(h, ne, h[e].Child[i]), e, ne, i + 1)

\* e.dup(parent): the heap with the copy, and the copy's address
dup(h, e, parent) ==
  [h |-> dupChildren(allocate(h, h[e].Space, h[e].Tag, h[e].Attr, <<>>, parent),
                     e, Len(h) + 1, 1),
   t |-> Len(h) + 1]

\* the index of the first token of e.Child that is the element el, or 0
RECURSIVE childIndex(_, _, _, _)
childIndex(h, e, el, i) ==
  IF i > Len(h[e].Child) THEN 0
  ELSE IF h[e].Child[i].kind = "Element" /\ h[e].Child[i].e = el THEN i
       ELSE childIndex(h, e, el, i + 1)

InitBuild ==
  /\ input = <<>> /\ tz = NoTz /\ cp = NoCp
  /\ tree = NewDocument(<<>>) /\ start = 0 /\ ev = NoEv /\ hist = NoHist
  /\ fx = [st |-> "build", docs |-> {1}]

\* e.CreateElement(tag)
CreateElement(e, tag) ==
  /\ fx.st = "build"
  /\ Len(tree) < MaxHeap
  /\ tree' = addChild(allocate(tree, <<>>, tag, <<>>, <<>>, e), e,
                      [kind |-> "Element", e |-> Len(tree) + 1])
  /\ UNCHANGED <<input, tz, cp, start, ev, hist, fx>>

\* e.RemoveElement(el) where el is a child of e: the Child list becomes
\* append(e.Child[0:i], e.Child[i+1:]...), i counted from 1 here
RemoveElement(e, el) ==
  /\ fx.st = "build"
  /\ childIndex(tree, e, el, 1) # 0
  /\ LET without(s, i) == SubSeq(s, 1, i - 1) \o SubSeq(s, i + 1, Len(s))
     IN tree' = [tree EXCEPT ![e].Child = without(@, childIndex(tree, e, el, 1)),
                             ![el].parent = 0]
  /\ UNCHANGED <<input, tz, cp, start, ev, hist, fx>>

\* e.Copy()
ElementCopy(e) ==
  /\ fx.st = "build"
  /\ e \notin fx.docs
  /\ Len(dup(tree, e, 0).h) <= MaxHeap
  /\ tree' = dup(tree, e, 0).h
  /\ UNCHANGED <<input, tz, cp, start, ev, hist, fx>>

\* d.Copy(): ne = d.dup(nil), then &Document{*ne}, a new Document whose
\* Element holds the fields of ne
DocumentCopy(d) ==
  /\ fx.st = "build"
  /\ d \in fx.docs
  /\ LET document(h, ne) ==
           /\ Len(h) < MaxHeap
           /\ tree' = allocate(h, h[ne].Space, h[ne].Tag, h[ne].Attr,
                               h[ne].Child, h[ne].parent)
           /\ fx' = [fx EXCEPT !.docs = @ \cup {Len(h) + 1}]
     IN document(dup(tree, d, 0).h, Len(tree) + 1)
  /\ UNCHANGED <<input, tz, cp, start, ev, hist>>

\* CreateDocument(root)
CreateDocument(root) ==
  /\ fx.st = "build"
  /\ root \notin fx.docs
  /\ Len(tree) < MaxHeap
  /\ tree' = addChild(NewDocument(tree), Len(tree) + 1,
                      [kind |-> "Element", e |-> root])
  /\ fx' = [fx EXCEPT !.docs = @ \cup {Len(tree) + 1}]
  /\ UNCHANGED <<input, tz, cp, start, ev, hist>>

NextBuild ==
  \/ \E e \in DOMAIN tree : \E tag \in Tags : CreateElement(e, tag)
  \/ \E e \in DOMAIN tree : \E el \in DOMAIN tree : RemoveElement(e, el)
  \/ \E e \in DOMAIN tree : ElementCopy(e)
  \/ \E d \in DOMAIN tree : DocumentCopy(d)
  \/ \E root \in DOMAIN tree : CreateDocument(root)

SpecBuild == InitBuild /\ [][NextBuild]_vars

---------------------------------------------------------------------------
(* Properties *)

NoDup(s) == \A i, j \in 1..Len(s) : i # j => s[i] # s[j]

\* s without the later occurrences of its elements: the k-th element of the
\* result is s at the k-th index that holds an element for the first time
FirstOccurrences(s) ==
  LET firsts == { i \in 1..Len(s) : \A j \in 1..(i - 1) : s[j] # s[i] }
      place(k) == CHOOSE i \in firsts :
                    Cardinality({ j \in firsts : j < i }) = k - 1
  IN  [k \in 1..Cardinality(firsts) |-> s[place(k)]]

Running == ev.pc \in {"loop", "done", "panic"}

\* C1: the list that traverse builds and returns never holds the same
\* element twice, also when several nodes of the final segment reach it.
C1_ResultHasNoDuplicates ==
  Running => NoDup(ev.out.list) /\ NoDup(ev.result)

\* traverse has returned two or more elements, one of which arrived twice
C1_Witness ==
  /\ ev.pc = "done"
  /\ Len(ev.result) >= 2
  /\ ~NoDup(hist.arrivals)

\* C2: the queue is first in, first out (the nodes leave it in the order
\* they entered it), and the result is the sequence of the first arrivals
\* of the final-segment candidates in the order their nodes were dequeued:
\* an element that arrives again keeps its place.
C2_FirstArrivalOrder ==
  Running =>
    /\ hist.enq = hist.deq \o ev.queue
    /\ ev.out.list = FirstOccurrences(hist.arrivals)
    /\ ev.pc = "done" => ev.result = FirstOccurrences(hist.arrivals)

\* traverse has returned after three nodes or more, and some element
\* arrived, then another one, then the first again
C2_Witness ==
  /\ ev.pc = "done"
  /\ Len(hist.deq) >= 3
  /\ \E i, j, k \in 1..Len(hist.arrivals) :
       /\ i < j /\ j < k
       /\ hist.arrivals[i] = hist.arrivals[k]
       /\ hist.arrivals[i] # hist.arrivals[j]

\* C3: evaluating a compiled path never panics, and when nothing matches
\* FindElementsPath returns the empty list and FindElementPath nil.
C3_EvaluationNeverFails ==
  /\ ev.pc # "panic"
  /\ (ev.pc = "done" /\ Len(ev.out.list) = 0) => (ev.result = <<>> /\ ev.first = 0)

SelectorKinds ==
  {"selectRoot", "selectSelf", "selectParent", "selectChildren",
   "selectChildrenByTag", "selectDescendants"}

\* at least one segment, in each segment at least one segmentExpr with a
\* selector, in each filter at least one filterExpr
WellFormedPath(segments) ==
  /\ Len(segments) >= 1
  /\ \A i \in 1..Len(segments) :
       /\ Len(segments[i].exprs) >= 1
       /\ \A j \in 1..Len(segments[i].exprs) :
            /\ segments[i].exprs[j].sel.t \in SelectorKinds
            /\ \A k \in 1..Len(segments[i].exprs[j].filters) :
                 Len(segments[i].exprs[j].filters[k].exprs) >= 1

\* C4: a Path that CompilePath returns without an error has a segment, its
\* segments each have a segmentExpr with a selector, its filters each have a
\* filterExpr; and no node of traverse's queue has an empty segment list.
C4_PathsAreNonEmpty ==
  /\ (cp.st = "done" /\ ~cp.err) => WellFormedPath(cp.segments)
  /\ \A i \in 1..Len(ev.queue) : Len(ev.queue[i].segments) >= 1

\* traverse runs on a path of two segments or more and two nodes wait
C4_Witness ==
  /\ cp.st = "done" /\ ~cp.err
  /\ Len(cp.segments) >= 2
  /\ ev.pc = "loop"
  /\ Len(ev.queue) >= 2

\* C5: a node enters the queue with exactly one segment fewer than the node
\* it was produced from, and a call of traverse ends in no other way than
\* with the queue empty and the result returned.
C5_TraverseReturns ==
  Running =>
    /\ \A i \in 1..Len(hist.enq) :
         hist.from[i] # 0 => Len(hist.enq[i].segments) = hist.from[i] - 1
    /\ ev.pc # "loop" =>
         (ev.pc = "done" /\ Len(ev.queue) = 0 /\ ev.result = ev.out.list)

\* C6 as stated: CompilePath returns ErrPathSyntax for the paths / and //.
C6_SeparatorOnlyIsRejected ==
  (cp.st = "done" /\ input \in {<<47>>, <<47, 47>>}) => cp.err

\* C6: CompilePath accepts the paths / and //: / compiles to the root
\* segment, // to the root segment and the descendants segment; the path
\* without any token is the one that is rejected.
C6_SeparatorOnlyCompiles ==
  cp.st = "done" =>
    /\ input = <<47>> => (~cp.err /\ cp.segments = <<rootSegment>>)
    /\ input = <<47, 47>> =>
         (~cp.err /\ cp.segments = <<rootSegment, descendantsSegment>>)
    /\ Len(consumeWhitespace(input)) = 0 => cp.err

\* CompilePath has returned for the path //
C6_Witness == cp.st = "done" /\ input = <<47, 47>> /\ tz.st = "ok"

\* C7: CompilePath returns ErrPathSyntax for every token list that the
\* grammar does not derive.
C7_UnderivableIsRejected ==
  (cp.st = "done" /\ ~Derives(tz.toks)) => cp.err

\* a non-empty string of ASCII letters and underscores
IsName(s) ==
  /\ Len(s) >= 1
  /\ \A i \in 1..Len(s) : s[i] \in (65..90) \cup (97..122) \cup {95}

\* C8: a path of ASCII letters and underscores tokenizes to the one
\* Identifier token that carries the whole name.
C8_NameIsOneIdentifier ==
  (IsName(input) /\ (Len(tz.toks) >= 1 \/ tz.st # "loop")) =>
    (tz.st # "err" /\ tz.toks = <<Tok("tokIdentifier", input)>>)

\* C9: filterIndex.eval reads no element outside the candidate list, for
\* any index: an index below minus the length of the list gives the empty
\* list.
C9_IndexStaysInList ==
  fx.st = "done" =>
    /\ ~fx.out.panic
    /\ (fx.n < 0 /\ 0 - fx.n > Len(fx.in.list)) => fx.out.list = <<>>

\* what the filter [n] keeps of the list L
Kept(n, L) ==
  IF n >= 1 /\ n <= Len(L) THEN <<L[n]>>
  ELSE IF n = 0 /\ Len(L) >= 1 THEN <<L[1]>>
  ELSE IF n < 0 /\ 0 - n <= Len(L) THEN <<L[Len(L) + n + 1]>>
  ELSE <<>>

\* C10: the filter [n] keeps the n-th element of the list for n from 1 to
\* its length, [0] keeps what [1] keeps, [-k] keeps the k-th element from
\* the end for k up to the length, and any other n keeps nothing.
C10_IndexSemantics ==
  fx.st = "done" => (~fx.out.panic /\ fx.out.list = Kept(fx.n, fx.in.list))

RECURSIVE IsSubsequence(_, _)
\* a is b without some of its elements
IsSubsequence(a, b) ==
  IF Len(a) = 0 THEN TRUE
  ELSE IF Len(b) = 0 THEN FALSE
  ELSE IF Head(a) = Head(b) THEN IsSubsequence(Tail(a), Tail(b))
  ELSE IsSubsequence(a, Tail(b))

\* C11: the output of evalFilter is a subsequence of its input candidate
\* list, for every filter, a union of filter expressions included.
C11_FilterKeepsOrder ==
  fx.st = "filtered" => IsSubsequence(fx.out.list, filterInput.list)

\* C12: add appends an element only if the list does not hold it: after
\* add calls the list holds no element twice.
C12_AddAppendsIfAbsent ==
  (fx.st = "cand" /\ fx.op = "add") =>
    /\ NoDup(fx.c.list)
    /\ fx.arg[1] \in Range(fx.old) => fx.c.list = fx.old

\* the elements of other that old does not hold
Absent(old, other) == SelectSeq(other, LAMBDA x : \A i \in 1..Len(old) : old[i] # x)

\* C13: merge leaves the receiver's list as a prefix and appends to it, in
\* the order of other, the elements of other the receiver did not hold,
\* each once.
C13_MergeAppendsAbsent ==
  fx.st = "merged" =>
    fx.c.list = fx.old \o FirstOccurrences(Absent(fx.old, fx.arg))

\* a merge into a receiver with a table, of a list that holds an element of
\* the receiver and twice an element that is new
C13_Witness ==
  /\ fx.st = "merged"
  /\ ~fx.c.tableNil
  /\ \E i, j, k \in 1..Len(fx.arg) :
       /\ i # j /\ fx.arg[i] = fx.arg[j]
       /\ \A n \in 1..Len(fx.old) : fx.old[n] # fx.arg[i]
       /\ \E n \in 1..Len(fx.old) : fx.old[n] = fx.arg[k]

C15_DotSlashIsIdentity ==
  (fx.st = "done" /\ fx.rel = "dotslash") => fx.left = fx.right

\* ./p with a result of several elements, p of more than one segment
C15_Witness ==
  /\ fx.st = "done" /\ fx.rel = "dotslash"
  /\ ~fx.right.err /\ ~fx.right.panic
  /\ Len(cp.segments) > 1
  /\ Len(fx.right.list) > 1

\* C16: a path that ends in // returns the elements that the same path
\* followed by * returns.
C16_TrailingRecurseIsChildren ==
  (fx.st = "done" /\ fx.rel = "trailing") => fx.left = fx.right

\* what evaluation i returns when it runs alone
Alone(i) == traverse(fx.runs[i].e, cp.segments)

Blank(s) == \A i \in 1..Len(s) : s[i] \in {32, 9}

\* C19: CompilePath returns ErrPathSyntax and a Path without segments for
\* the empty string and for a string of spaces and tabs.
C19_BlankIsRejected ==
  (cp.st = "done" /\ Blank(input)) => (cp.err /\ cp.segments = <<>>)

\* CompilePath has returned for a string of a space and a tab
C19_Witness ==
  /\ cp.st = "done"
  /\ Len(input) >= 2
  /\ Blank(input)
  /\ \E i, j \in 1..Len(input) : input[i] = 32 /\ input[j] = 9

\* the positions of s from i on that lie outside a quoted string, and
\* whether a quote is left open at the end; q is the open quote, or 0
RECURSIVE quoteScan(_, _, _, _)
quoteScan(s, i, q, outside) ==
  IF i > Len(s) THEN [outside |-> outside, open |-> q # 0]
  ELSE IF q # 0 THEN quoteScan(s, i + 1, IF s[i] = q THEN 0 ELSE q, outside)
  ELSE IF s[i] \in {39, 34} THEN quoteScan(s, i + 1, s[i], outside)
  ELSE quoteScan(s, i + 1, 0, outside \cup {i})

\* the string has, outside a quoted string, a newline, or a - that begins
\* a lexeme (no byte of a name before it) with no digit after it, or it
\* has a quote that is not closed
LexicalError(s) ==
  LET found(q) ==
        \/ q.open
        \/ \E i \in q.outside :
             \/ s[i] = 10
             \/ /\ s[i] = 45
                /\ i = Len(s) \/ s[i + 1] \notin 48..57
                /\ \A j \in q.outside : j < i => s[j] \notin {98, 95, 195, 169}
  IN  found(quoteScan(s, 1, 0, {}))

\* C20: for a string with a lexical error CompilePath returns
\* ErrPathSyntax and a Path without segments: every token tokenizePath
\* appends has consumed a byte, so its loop ends, and the return is an
\* error.
C20_LexicalErrorsAreReported ==
  LexicalError(input) =>
    /\ cp.st = "done" => (cp.err /\ cp.segments = <<>>)
    /\ tz.st = "loop" => Len(tz.toks) + Len(tz.s) <= Len(input)

C22_CandidateSetsHaveNoDuplicates ==
  fx.st \in {"filter", "expr", "filtered"} =>
    /\ NoDup(filterInput.list)
    /\ fx.st # "filter" => NoDup(fx.out.list)

\* C23: tokenizePath's loop ends: every token it has appended stands for at
\* least one consumed byte of the string, so there are never more tokens
\* than consumed bytes.
C23_EveryTokenConsumesInput ==
  tz.st = "loop" => Len(tz.toks) <= Len(input) - Len(tz.s)

\* s is made of name characters: b, _, 1, -, . and the two bytes of U+00E9
RECURSIVE NameChars(_)
NameChars(s) ==
  \/ s = <<>>
  \/ s[1] \in {98, 95, 49, 45, 46} /\ NameChars(Tail(s))
  \/ Len(s) >= 2 /\ s[1] = 195 /\ s[2] = 169 /\ NameChars(Tail(Tail(s)))

\* s is an identifier that holds U+00E9
NonAsciiName(s) ==
  /\ Len(s) >= 2
  /\ s[1] \in {98, 95, 195}
  /\ NameChars(s)
  /\ \E i \in 1..Len(s) : s[i] = 195

\* C27: an identifier with a character of more than one byte tokenizes to
\* the one Identifier token that carries all its bytes, and nothing of it
\* is left to scan.
C27_NonAsciiIdentifierIsWhole ==
  (NonAsciiName(input) /\ (Len(tz.toks) >= 1 \/ tz.st # "loop")) =>
    /\ tz.st # "err"
    /\ tz.toks[1] = Tok("tokIdentifier", input)
    /\ Len(tz.toks) = 1 => tz.s = <<>>

\* the child elements of c that have the tag
MatchingChildren(c, tag) ==
  SelectSeq(tree[c].Child,
            LAMBDA ch : ch.kind = "Element" /\ tree[ch.e].Tag = tag)

\* the candidates of the selector that have a child with the tag, each once
Satisfying(tag) ==
  SelectSeq(selector_eval(fx.sel, start).list,
            LAMBDA c : Len(MatchingChildren(c, tag)) > 0)

\* C24: *[tag][n] keeps the n-th of the distinct candidates that have a
\* child with the tag, and nothing when there are fewer than n: a candidate
\* with several such children counts once.
C24_FiltersApplyInSequence ==
  fx.st = "chained" =>
    fx.out.list = IF fx.n <= Len(Satisfying(fx.tag))
                  THEN <<Satisfying(fx.tag)[fx.n]>> ELSE <<>>

\* the only candidate with the tag among its children has two of them, and
\* the index filter 2 keeps nothing
C24_Witness ==
  /\ fx.st = "chained"
  /\ fx.n = 2
  /\ Len(Satisfying(fx.tag)) = 1
  /\ Len(MatchingChildren(Satisfying(fx.tag)[1], fx.tag)) >= 2
  /\ fx.out.list = <<>>

\* the number of parents above x
RECURSIVE Depth(_)
Depth(x) == IF tree[x].parent = 0 THEN 0 ELSE 1 + Depth(tree[x].parent)

\* x is e or below e
RECURSIVE Below(_, _)
Below(x, e) == x = e \/ (tree[x].parent # 0 /\ Below(tree[x].parent, e))

\* the place of x in the list, and among the tokens of its parent
PlaceIn(list, x) == CHOOSE i \in 1..Len(list) : list[i] = x
ChildPlace(x) ==
  CHOOSE i \in 1..Len(tree[tree[x].parent].Child) :
    tree[tree[x].parent].Child[i] = [kind |-> "Element", e |-> x]

\* C25: the descendants selector at e yields e first and then each element
\* below e once, level by level: a shallower element comes before a deeper
\* one, on one level the children of an earlier element come first, and
\* the children of one element keep their order. Tokens of the Child lists
\* that are no elements are left out.
C25_DescendantsAreBreadthFirst ==
  fx.st = "selected" =>
    LET list == fx.out.list
    IN  /\ list[1] = start
        /\ NoDup(list)
        /\ Range(list) = { x \in DOMAIN tree : Below(x, start) }
        /\ \A i, j \in 2..Len(list) :
             i < j =>
               \/ Depth(list[i]) < Depth(list[j])
               \/ /\ Depth(list[i]) = Depth(list[j])
                  /\ IF tree[list[i]].parent = tree[list[j]].parent
                     THEN ChildPlace(list[i]) < ChildPlace(list[j])
                     ELSE PlaceIn(list, tree[list[i]].parent)
                            < PlaceIn(list, tree[list[j]].parent)

\* the selector has returned for an element with two child elements, the
\* first of them with a child of its own, and with tokens that are no
\* elements in the Child lists
C25_Witness ==
  /\ fx.st = "selected"
  /\ Len(fx.out.list) >= 4
  /\ \E x, y, z \in Range(fx.out.list) :
       /\ tree[x].parent = start /\ tree[y].parent = start /\ x < y
       /\ tree[z].parent = x
       /\ \E i \in 1..Len(tree[start].Child) : ~IsElement(tree[start].Child[i])
       /\ \E i \in 1..Len(tree[x].Child) : ~IsElement(tree[x].Child[i])

\* C26: the segment x|y gives the candidates of x followed by the
\* candidates of y that x did not give, each group in its own order; x|x
\* gives what x gives.
C26_UnionAppendsTheNew ==
  fx.st = "united" =>
    /\ fx.out.list = fx.left.list \o Absent(fx.left.list, fx.right.list)
    /\ fx.x = fx.y => fx.out.list = fx.left.list

\* x and y differ and share a candidate, and y gives, before the shared
\* one, a candidate that x does not give
C26_Witness ==
  /\ fx.st = "united"
  /\ fx.x # fx.y
  /\ \E i, j \in 1..Len(fx.right.list) :
       /\ i < j
       /\ fx.right.list[i] \notin Range(fx.left.list)
       /\ fx.right.list[j] \in Range(fx.left.list)

\* C28: the list does not depend on the table: an add gives the old list
\* with the element appended, and a merge gives what the scan of the list
\* gives for the old list, whether the receiver has, gets or lacks a table.
C28_TableAndScanAgree ==
  fx.st \in {"cand", "merged"} =>
    /\ fx.op = "none" => fx.c.list = [i \in 1..Len(fx.c.list) |-> i]
    /\ fx.op = "add" => fx.c.list = Append(fx.old, fx.arg[1])
    /\ fx.op = "merge" => fx.c.list = mergeSmall(fx.old, fx.arg)

\* a merge into a receiver that had its table before the merge, of an
\* element that entered the receiver after the table was made
C28_Witness ==
  /\ fx.st = "merged"
  /\ ~fx.c.tableNil
  /\ Len(fx.old) >= largeListSize
  /\ \E i \in (largeListSize + 1)..Len(fx.old) : fx.old[i] \in Range(fx.arg)
  /\ fx.c.list = fx.old

\* C30: a candidates value with a table has the elements of its list, and
\* no others, as the keys of the table, and a list of largeListSize
\* elements or more has a table.
C30_TableMatchesList ==
  fx.st \in {"cand", "merged"} =>
    /\ ~fx.c.tableNil => fx.c.table = Range(fx.c.list)
    /\ Len(fx.c.list) >= largeListSize => ~fx.c.tableNil

\* a merge has made the table of a receiver whose list stays shorter than
\* largeListSize, and the table holds the elements of the list
C30_Witness ==
  /\ fx.st = "merged"
  /\ ~fx.c.tableNil
  /\ Len(fx.c.list) < largeListSize
  /\ fx.c.table = Range(fx.c.list)

\* the elements among the tokens of e.Child
ChildElementsOf(e) ==
  { tree[e].Child[i].e : i \in { j \in 1..Len(tree[e].Child) :
                                   tree[e].Child[j].kind = "Element" } }

\* C29: after any sequence of CreateElement, RemoveElement, Element.Copy,
\* Document.Copy and CreateDocument, every element in e.Child has e as its
\* Parent, no element is in the Child lists of two elements, and the element
\* of a document has no parent.
C29_ParentsMatchChildLists ==
  fx.st = "build" =>
    /\ \A e \in DOMAIN tree : \A c \in ChildElementsOf(e) : tree[c].parent = e
    /\ \A e1, e2 \in DOMAIN tree :
         e1 # e2 => ChildElementsOf(e1) \cap ChildElementsOf(e2) = {}
    /\ \A d \in fx.docs : tree[d].parent = 0


===========================================================================
